---- MODULE Spec2Model ----
(***************************************************************************)
(* Model of the hybrid AI query pipeline of SkyConnect                      *)
(* (backend/services/ai/hybrid): intent classifier, role validator, query  *)
(* router, retrieval (RAG) engine, deterministic data engine and the       *)
(* Groq/Gemini generation provider.                                        *)
(*                                                                         *)
(* Floating point similarities are modelled in hundredths (0.6 -> 60).     *)
(* Python's None is the string None for string-valued fields and the       *)
(* record NULL for object-valued fields.                                   *)
(***************************************************************************)
EXTENDS Integers, Sequences, FiniteSets, TLC

VARIABLES
    pc,                    \* position of the call under way
    args,                  \* arguments of the call under way
    intent_meta,           \* IntentMetadata returned by classify, or NULL
    role_validation,       \* RoleValidationResult returned by validate, or NULL
    response,              \* value returned by the call under way, or NULL
    raised,                \* name of the exception that escaped the call, or None
    calls,                 \* collaborator calls made so far, in order
    EMBEDDINGS_AVAILABLE,  \* intent_classifier module flag set at import
    embedding_model,       \* IntentClassifier._embedding_model
    example_embeddings,    \* IntentClassifier._example_embeddings
    enable_llm_formatting, \* QueryRouter.enable_llm_formatting
    llm                    \* HybridLLMProvider: clients configured and stats

vars == <<pc, args, intent_meta, role_validation, response, raised, calls,
          EMBEDDINGS_AVAILABLE, embedding_model, example_embeddings,
          enable_llm_formatting, llm>>

None == "None"
NULL == [null |-> TRUE]

\* Python truthiness of an Optional[str]
Truthy(s) == s /= None /\ s /= ""

\* the member of a singleton set; TheOne({e(x) : x \in {v}}) is e of the
\* value v, which is computed once
TheOne(S) == CHOOSE x \in S : TRUE

-----------------------------------------------------------------------------
(* Bounds of the model *)

NumUsers == 2
\* longest query, in words
MaxQueryLen == 2
\* most saved items the store returns for one user
MaxRecords == 2
\* most chunks a similarity search returns (at most MAX_CHUNKS)
MaxHits == 2
\* generate calls made on one provider
MaxCalls == 3
\* generate_full calls in flight on the shared provider
NumTasks == 3
\* characters of a document to index, and the largest chunk_size asked for
MaxTextLen == 6
MaxChunkSize == 3

Uid(i) == "u" \o ToString(i)
UserIds == {Uid(i) : i \in 1..NumUsers}
\* values an Optional[str] owner / partner id can take
OptIds == UserIds \cup {None, ""}

-----------------------------------------------------------------------------
(* Enumerations *)

RECOMMENDATION == "recommendation_query"
SAVED_ITEMS == "saved_items_query"
ANALYTICS == "analytics_query"
REVENUE == "revenue_query"
MODERATION == "moderation_query"
POLICY == "policy_query"
NAVIGATION == "navigation_query"
TROUBLESHOOTING == "troubleshooting_query"
UNKNOWN == "unknown"

Intent == {RECOMMENDATION, SAVED_ITEMS, ANALYTICS, REVENUE, MODERATION,
           POLICY, NAVIGATION, TROUBLESHOOTING, UNKNOWN}

TRAVELER == "traveler"
PARTNER == "partner"
ADMIN == "admin"

UserRole == {TRAVELER, PARTNER, ADMIN}

\* HybridLLMProvider after construction with both API keys
LlmInit == [groq_client |-> TRUE, gemini_client |-> TRUE,
            stats |-> [groq_success |-> 0, groq_failure |-> 0,
                       gemini_success |-> 0, gemini_fallback |-> 0,
                       total_failures |-> 0]]

-----------------------------------------------------------------------------
(* Role validator *)

RoleValidationResult(allowed, role, intent, reason, requires_scope_validation) ==
    [allowed |-> allowed, role |-> role, intent |-> intent, reason |-> reason,
     requires_scope_validation |-> requires_scope_validation]

INTENT_ROLE_PERMISSIONS ==
    [i \in Intent |->
        CASE i = RECOMMENDATION -> {TRAVELER, PARTNER, ADMIN}
          [] i = SAVED_ITEMS -> {TRAVELER}
          [] i = ANALYTICS -> {PARTNER, ADMIN}
          [] i = REVENUE -> {PARTNER, ADMIN}
          [] i = MODERATION -> {ADMIN}
          [] i = POLICY -> {TRAVELER, PARTNER, ADMIN}
          [] i = NAVIGATION -> {TRAVELER, PARTNER, ADMIN}
          [] i = TROUBLESHOOTING -> {TRAVELER, PARTNER, ADMIN}
          [] i = UNKNOWN -> {TRAVELER, PARTNER, ADMIN}]

SCOPE_VALIDATION_REQUIRED == {ANALYTICS, REVENUE, SAVED_ITEMS}

\* the orders in which iterating a Python set of roles can yield its members
Orderings(S) ==
    {s \in [1..Cardinality(S) -> S] : \A a \in S : \E i \in DOMAIN s : s[i] = a}

RECURSIVE Join(_, _)
\* sep.join(parts)
Join(parts, sep) ==
    IF Len(parts) = 0 THEN ""
    ELSE IF Len(parts) = 1 THEN parts[1]
    ELSE parts[1] \o sep \o Join(Tail(parts), sep)

UNKNOWN_INTENT_REASON == "Unknown intent type"
SCOPE_VIOLATION_REASON == "Access denied: Cannot access other users' resources"
ACCESS_GRANTED_REASON == "Access granted"

RoleDeniedReason(role, intent, order) ==
    "Role '" \o role \o "' not permitted for " \o intent \o ". Required: "
        \o Join(order, ", ")

\* the scope check skips ADMIN unconditionally (mutant of ScopeViolation's guard)
ScopeViolationAdminChecked(user_id, role, intent, resource_owner_id) ==
    /\ intent \in SCOPE_VALIDATION_REQUIRED
    /\ Truthy(resource_owner_id)
    /\ resource_owner_id /= user_id

\* the scope check is skipped for every role (mutant)
ScopeViolationNever(user_id, role, intent, resource_owner_id) == FALSE

\* step 3 of validate: requires_scope and role != ADMIN and owner differs
ScopeViolation(user_id, role, intent, resource_owner_id) ==
    /\ intent \in SCOPE_VALIDATION_REQUIRED
    /\ role /= ADMIN
    /\ Truthy(resource_owner_id)
    /\ resource_owner_id /= user_id

\* ADMIN passes the allow-list for every intent (mutant)
RolePermittedAdminBypass(role, intent) ==
    role = ADMIN \/ role \in INTENT_ROLE_PERMISSIONS[intent]

\* step 2 of validate: role in allowed_roles
RolePermitted(role, intent) == role \in INTENT_ROLE_PERMISSIONS[intent]

\* RoleValidator.validate; order is the iteration order of allowed_roles
validate(user_id, role, intent, resource_owner_id, order) ==
    IF intent \notin DOMAIN INTENT_ROLE_PERMISSIONS
    THEN RoleValidationResult(FALSE, role, intent, UNKNOWN_INTENT_REASON, FALSE)
    ELSE IF ~RolePermitted(role, intent)
    THEN RoleValidationResult(FALSE, role, intent,
                              RoleDeniedReason(role, intent, order), FALSE)
    ELSE IF ScopeViolation(user_id, role, intent, resource_owner_id)
    THEN RoleValidationResult(FALSE, role, intent, SCOPE_VIOLATION_REASON, FALSE)
    ELSE RoleValidationResult(TRUE, role, intent, ACCESS_GRANTED_REASON,
                              intent \in SCOPE_VALIDATION_REQUIRED)

-----------------------------------------------------------------------------
(* Intent classifier *)

\* A query is a sequence of lower-case words; an alternative of a pattern that
\* spans several words ("how many", "looking for") is one word of the sequence.
\* One(A) is \b(A)\b and Two(A, B) is \b(A)\b.*\b(B)\b under re.IGNORECASE.
One(A) == [first |-> A, then |-> {}, two |-> FALSE]
Two(A, B) == [first |-> A, then |-> B, two |-> TRUE]

\* the rule groups, in the order of the dict KEYWORD_PATTERNS
KEYWORD_PATTERNS == <<
    [intent |-> RECOMMENDATION, patterns |-> <<
        Two({"recommend", "suggest", "find", "show", "discover", "looking for", "search"},
            {"hotel", "hotels", "resort", "resorts", "experience", "experiences",
             "stay", "stays", "vacation", "vacations", "trip", "trips",
             "destination", "destinations"}),
        Two({"best", "top", "popular"},
            {"place", "places", "spot", "spots", "location", "locations",
             "hotel", "hotels", "resort", "resorts"}),
        Two({"beach", "mountain", "city", "adventure", "luxury"},
            {"getaway", "vacation", "trip"}) >>],
    [intent |-> SAVED_ITEMS, patterns |-> <<
        One({"saved", "bookmarked", "favorite", "favorites", "liked", "my list"}),
        Two({"show", "view", "see"},
            {"saved", "bookmark", "bookmarks", "favorite", "favorites"}),
        Two({"what have i", "what did i"}, {"save", "bookmark", "like"}) >>],
    [intent |-> ANALYTICS, patterns |-> <<
        Two({"how many", "total", "count"},
            {"view", "views", "click", "clicks", "impression", "impressions",
             "visitor", "visitors"}),
        One({"analytics", "stat", "stats", "statistics", "performance", "metrics"}),
        Two({"show", "view", "check"},
            {"analytics", "stat", "stats", "performance"}),
        Two({"my", "our"},
            {"view", "views", "click", "clicks", "booking", "bookings",
             "reservation", "reservations"}) >>],
    [intent |-> REVENUE, patterns |-> <<
        One({"revenue", "earning", "earnings", "income", "sales", "profit"}),
        Two({"how much", "total"}, {"earned", "made", "revenue", "income"}),
        Two({"this month", "this week", "this year",
             "last month", "last week", "last year"},
            {"earning", "earnings", "revenue", "income"}) >>],
    [intent |-> MODERATION, patterns |-> <<
        Two({"review", "approve", "reject", "moderate", "verify"},
            {"partner", "partners", "application", "applications",
             "listing", "listings", "content"}),
        Two({"pending", "awaiting"}, {"approval", "review", "moderation"}),
        Two({"flag", "flagged"}, {"content", "review", "listing"}) >>],
    [intent |-> POLICY, patterns |-> <<
        One({"policy", "policies", "term", "terms", "condition", "conditions",
             "guideline", "guidelines", "rule", "rules"}),
        Two({"what is the", "what are the", "explain the"},
            {"policy", "term", "terms", "rule", "rules", "guideline", "guidelines"}),
        Two({"refund", "cancellation", "privacy", "commission", "payout"},
            {"policy", "term", "terms", "rule", "rules"}),
        One({"pdpa", "data protection", "personal data"}) >>],
    [intent |-> NAVIGATION, patterns |-> <<
        Two({"how do i", "how to", "how can i", "where do i", "where to", "where can i"},
            {"edit", "update", "change", "add", "delete", "create", "upload"}),
        Two({"navigate", "go to", "access", "find"},
            {"page", "pages", "section", "sections", "settings", "dashboard",
             "profile"}) >>],
    [intent |-> TROUBLESHOOTING, patterns |-> <<
        One({"why can't", "why cannot", "why isn't", "why is not",
             "why won't", "why will not"}),
        One({"error", "errors", "issue", "issues", "problem", "problems",
             "not working", "broken", "failed"}),
        Two({"can't", "cannot", "unable to"},
            {"upload", "submit", "save", "login", "access"}) >>] >>

\* RECOMMENDATION asks for both paths (mutant of INTENT_ROUTING)
INTENT_ROUTING_hybrid ==
    [i \in Intent |->
        IF i = RECOMMENDATION
        THEN [requires_db |-> TRUE, requires_rag |-> TRUE]
        ELSE IF i \in {SAVED_ITEMS, ANALYTICS, REVENUE, MODERATION}
        THEN [requires_db |-> TRUE, requires_rag |-> FALSE]
        ELSE IF i \in {POLICY, NAVIGATION, TROUBLESHOOTING}
        THEN [requires_db |-> FALSE, requires_rag |-> TRUE]
        ELSE [requires_db |-> FALSE, requires_rag |-> FALSE]]

INTENT_ROUTING ==
    [i \in Intent |->
        IF i \in {RECOMMENDATION, SAVED_ITEMS, ANALYTICS, REVENUE, MODERATION}
        THEN [requires_db |-> TRUE, requires_rag |-> FALSE]
        ELSE IF i \in {POLICY, NAVIGATION, TROUBLESHOOTING}
        THEN [requires_db |-> FALSE, requires_rag |-> TRUE]
        ELSE [requires_db |-> FALSE, requires_rag |-> FALSE]]

\* the intents of INTENT_EXAMPLES, in the order of the dict
INTENT_EXAMPLES ==
    <<RECOMMENDATION, SAVED_ITEMS, ANALYTICS, REVENUE, MODERATION, POLICY,
      NAVIGATION, TROUBLESHOOTING>>

\* IntentClassifier.confidence_threshold, 0.6 in hundredths
confidence_threshold == 60

IntentMetadata(intent, confidence, requires_db, requires_rag, method) ==
    [intent |-> intent, confidence |-> confidence, requires_db |-> requires_db,
     requires_rag |-> requires_rag, method |-> method]

create_unknown_intent == IntentMetadata(UNKNOWN, 0, FALSE, FALSE, "none")

\* pattern.search(query)
Search(pattern, query) ==
    IF pattern.two
    THEN \E i \in DOMAIN query : \E j \in DOMAIN query :
            i < j /\ query[i] \in pattern.first /\ query[j] \in pattern.then
    ELSE \E i \in DOMAIN query : query[i] \in pattern.first

GroupMatches(group, query) ==
    \E k \in DOMAIN group.patterns : Search(group.patterns[k], query)

\* the last matching group wins (mutant of FirstMatch)
LastMatch(query) ==
    LET hits == {g \in DOMAIN KEYWORD_PATTERNS :
                    GroupMatches(KEYWORD_PATTERNS[g], query)}
    IN IF hits = {} THEN 0 ELSE CHOOSE g \in hits : \A h \in hits : h <= g

\* index of the first group, in dict order, with a matching rule; 0 if none
FirstMatch(query) ==
    LET hits == {g \in DOMAIN KEYWORD_PATTERNS :
                    GroupMatches(KEYWORD_PATTERNS[g], query)}
    IN IF hits = {} THEN 0 ELSE CHOOSE g \in hits : \A h \in hits : g <= h

\* IntentClassifier._classify_by_keywords; NULL when no pattern matches
classify_by_keywords(query) ==
    LET g == FirstMatch(query)
    IN IF g = 0 THEN NULL
       ELSE LET intent == KEYWORD_PATTERNS[g].intent
            IN IntentMetadata(intent, 100, INTENT_ROUTING[intent].requires_db,
                              INTENT_ROUTING[intent].requires_rag, "keyword")

RECURSIVE BestOf(_, _, _, _)
\* the loop of _classify_by_embedding over the items of the example table taken
\* in order: a later intent replaces the best only with a strictly larger score
BestOf(order, sims, best_intent, best_similarity) ==
    IF order = <<>> THEN [intent |-> best_intent, similarity |-> best_similarity]
    ELSE IF sims[Head(order)] > best_similarity
    THEN BestOf(Tail(order), sims, Head(order), sims[Head(order)])
    ELSE BestOf(Tail(order), sims, best_intent, best_similarity)

\* the example table's intents in dict order
TableOrder(table) == SelectSeq(INTENT_EXAMPLES, LAMBDA i : i \in table)

\* IntentClassifier._classify_by_embedding once model and query embedding exist;
\* sims[i] is the largest cosine similarity to the examples of intent i, read
\* for the intents the example table holds
classify_by_embedding(table, sims) ==
    LET best == BestOf(TableOrder(table), sims, UNKNOWN, 0)
    IN IntentMetadata(best.intent, best.similarity,
                      INTENT_ROUTING[best.intent].requires_db,
                      INTENT_ROUTING[best.intent].requires_rag, "embedding")

\* classify keeps the embedding result unless its confidence is below threshold
AcceptEmbedding(embedding_result) ==
    ~(embedding_result.confidence < confidence_threshold)

\* the tail of classify after the embedding fallback returned
embedding_outcome(embedding_result) ==
    IF AcceptEmbedding(embedding_result) THEN embedding_result
    ELSE create_unknown_intent

-----------------------------------------------------------------------------
(* Responses of the pipeline *)

QueryResponse(intent, role, data_source, text, metadata, raw_data) ==
    [intent |-> intent, role |-> role, data_source |-> data_source,
     response |-> text, metadata |-> metadata, raw_data |-> raw_data]

DATABASE == "database"
VECTOR_DB == "vector_db"
HYBRID == "hybrid"
NONE == "none"

APOLOGY ==
    "I apologize, but I encountered an error processing your request. Please try again."

\* HybridAISystem._create_error_response
create_error_response(error_message) ==
    QueryResponse(UNKNOWN, TRAVELER, NONE, APOLOGY,
                  [error |-> "system_error", error_message |-> error_message],
                  NULL)

\* the exception leaves the call under way and no entry point catches it
\* (mutant of Escapes)
EscapesUncaught(exc) ==
    /\ pc' = "done"
    /\ response' = response
    /\ raised' = exc

\* an exception leaves the call under way: HybridAISystem.query catches it and
\* answers with the error response, any other entry point lets it escape
Escapes(exc) ==
    /\ pc' = "done"
    /\ IF args.op = "query"
       THEN response' = create_error_response(exc) /\ raised' = None
       ELSE response' = response /\ raised' = exc

-----------------------------------------------------------------------------
(* IntentClassifier.classify, step by step *)

\* words the modelled queries are made of
Vocab == {"find", "hotels", "profile", "review", "partners", "saved", "stats",
          "revenue", "policy", "errors", "hello"}

Queries == UNION {[1..n -> Vocab] : n \in 0..MaxQueryLen}

\* cosine similarities in hundredths the embedding model can yield
Scores == {59, 60, 80}

\* similarity of the query to the examples of each intent: up to two intents
\* score, the others are orthogonal to the query
SimVectors ==
    LET I == {INTENT_EXAMPLES[k] : k \in DOMAIN INTENT_EXAMPLES}
    IN {[i \in I |-> IF i = i1 THEN s1 ELSE IF i = i2 THEN s2 ELSE 0] :
            i1 \in I, i2 \in I, s1 \in Scores, s2 \in Scores}

\* the similarities drawn for a query: a query put to the whole system is
\* similar to the examples of at most one intent
SimChoices ==
    IF args.op = "query"
    THEN {v \in SimVectors : Cardinality({i \in DOMAIN v : v[i] > 0}) <= 1}
    ELSE SimVectors

\* where classify returns to
ClassifyReturn == IF args.op = "query" THEN "validate" ELSE "done"

\* classify up to the embedding fallback: empty query, keyword fast path, and
\* the fallback when sentence-transformers is not installed
ClassifyStart ==
    /\ pc = "classify"
    /\ LET query == args.query
           keyword_result == classify_by_keywords(query)
       IN IF query = <<>>
          THEN intent_meta' = create_unknown_intent /\ pc' = ClassifyReturn
          ELSE IF keyword_result /= NULL
          THEN intent_meta' = keyword_result /\ pc' = ClassifyReturn
          ELSE IF ~EMBEDDINGS_AVAILABLE
          THEN /\ intent_meta' = embedding_outcome(create_unknown_intent)
               /\ pc' = ClassifyReturn
          ELSE intent_meta' = intent_meta /\ pc' = "lazy_load"
    /\ UNCHANGED <<args, role_validation, response, raised, calls,
                   EMBEDDINGS_AVAILABLE, embedding_model, example_embeddings,
                   enable_llm_formatting, llm>>

\* _lazy_load_embeddings when the model is already set
LazyLoadSkip ==
    /\ pc = "lazy_load"
    /\ embedding_model /= None
    /\ pc' = "encode"
    /\ UNCHANGED <<args, intent_meta, role_validation, response, raised, calls,
                   EMBEDDINGS_AVAILABLE, embedding_model, example_embeddings,
                   enable_llm_formatting, llm>>

\* SentenceTransformer(name) and the encoding of every example succeed
LazyLoadOk ==
    /\ pc = "lazy_load"
    /\ embedding_model = None
    /\ embedding_model' = "all-MiniLM-L6-v2"
    /\ example_embeddings' = {INTENT_EXAMPLES[k] : k \in DOMAIN INTENT_EXAMPLES}
    /\ calls' = Append(calls, [op |-> "load_model"])
    /\ pc' = "encode"
    /\ UNCHANGED <<args, intent_meta, role_validation, response, raised,
                   EMBEDDINGS_AVAILABLE, enable_llm_formatting, llm>>

\* SentenceTransformer(name) raises: nothing is assigned
LazyLoadModelFails ==
    /\ pc = "lazy_load"
    /\ embedding_model = None
    /\ calls' = Append(calls, [op |-> "load_model"])
    /\ Escapes("OSError")
    /\ UNCHANGED <<args, intent_meta, role_validation,
                   EMBEDDINGS_AVAILABLE, embedding_model, example_embeddings,
                   enable_llm_formatting, llm>>

\* the model is set, then encoding the examples of the k-th intent raises: the
\* table keeps the intents encoded before it
LazyLoadExamplesFail ==
    /\ pc = "lazy_load"
    /\ embedding_model = None
    /\ \E k \in DOMAIN INTENT_EXAMPLES :
          example_embeddings' = {INTENT_EXAMPLES[j] : j \in 1..(k - 1)}
    /\ embedding_model' = "all-MiniLM-L6-v2"
    /\ calls' = Append(calls, [op |-> "load_model"])
    /\ Escapes("RuntimeError")
    /\ UNCHANGED <<args, intent_meta, role_validation,
                   EMBEDDINGS_AVAILABLE, enable_llm_formatting, llm>>

\* encoding the query raises
EncodeFails ==
    /\ pc = "encode"
    /\ calls' = Append(calls, [op |-> "encode_query"])
    /\ Escapes("RuntimeError")
    /\ UNCHANGED <<args, intent_meta, role_validation,
                   EMBEDDINGS_AVAILABLE, embedding_model, example_embeddings,
                   enable_llm_formatting, llm>>

\* the query is encoded, compared with the example table, and classify applies
\* the confidence threshold
EncodeOk ==
    /\ pc = "encode"
    /\ \E sims \in SimChoices :
          /\ calls' = Append(calls, [op |-> "encode_query", sims |-> sims])
          /\ intent_meta' =
                embedding_outcome(classify_by_embedding(example_embeddings, sims))
    /\ pc' = ClassifyReturn
    /\ UNCHANGED <<args, role_validation, response, raised,
                   EMBEDDINGS_AVAILABLE, embedding_model, example_embeddings,
                   enable_llm_formatting, llm>>

Classify ==
    \/ ClassifyStart
    \/ LazyLoadSkip
    \/ LazyLoadOk
    \/ LazyLoadModelFails
    \/ LazyLoadExamplesFail
    \/ EncodeFails
    \/ EncodeOk

\* the caller drops the result of the call that ended; the classifier is a
\* singleton and keeps its model and example table
ClassifyReturned ==
    /\ pc = "done"
    /\ args.op = "classify"
    /\ pc' = "idle"
    /\ args' = NULL
    /\ intent_meta' = NULL
    /\ raised' = None
    /\ calls' = <<>>
    /\ UNCHANGED <<role_validation, response, EMBEDDINGS_AVAILABLE,
                   embedding_model, example_embeddings, enable_llm_formatting,
                   llm>>

\* the next classify call finds the classifier as the previous call left it
NextClassifyCall ==
    /\ pc = "idle"
    /\ \E query \in Queries : args' = [op |-> "classify", query |-> query]
    /\ pc' = "classify"
    /\ UNCHANGED <<intent_meta, role_validation, response, raised, calls,
                   EMBEDDINGS_AVAILABLE, embedding_model, example_embeddings,
                   enable_llm_formatting, llm>>

\* the classifier after construction
InitClassifier ==
    /\ pc = "idle"
    /\ args = NULL
    /\ intent_meta = NULL
    /\ role_validation = NULL
    /\ response = NULL
    /\ raised = None
    /\ calls = <<>>
    /\ EMBEDDINGS_AVAILABLE \in BOOLEAN
    /\ embedding_model = None
    /\ example_embeddings = {}
    /\ enable_llm_formatting = TRUE
    /\ llm = LlmInit

NextClassifier == Classify \/ ClassifyReturned \/ NextClassifyCall

SpecClassifier == InitClassifier /\ [][NextClassifier]_vars

-----------------------------------------------------------------------------
(* Generation provider (HybridLLMProvider) *)

\* dict.get(key, default)
Get(d, key, default) == IF key \in DOMAIN d THEN d[key] ELSE default

\* {**a, **b}
Merge(a, b) ==
    [k \in DOMAIN a \cup DOMAIN b |-> IF k \in DOMAIN b THEN b[k] ELSE a[k]]

GROQ_TEXT == "<text generated by groq>"
GEMINI_TEXT == "<text generated by gemini>"

\* an attempt of a backend and what came of it
Attempt(backend, ok) == [op |-> backend, ok |-> ok]

\* the increment adds two (mutant of Bump)
BumpTwice(l, counter) == [l EXCEPT !.stats[counter] = @ + 2]

\* self.stats[counter] += 1
Bump(l, counter) == [l EXCEPT !.stats[counter] = @ + 1]

\* Groq is tried a second time before the fallback (mutant of generate_full)
generate_full_retry(l, groq_ok, gemini_ok) ==
    IF l.groq_client /\ groq_ok
    THEN [response |-> [text |-> GROQ_TEXT, provider |-> "groq",
                        fallback_used |-> FALSE],
          llm |-> Bump(l, "groq_success"),
          calls |-> <<Attempt("groq", TRUE)>>]
    ELSE LET l1 == IF l.groq_client THEN Bump(l, "groq_failure") ELSE l
             c1 == IF l.groq_client
                   THEN <<Attempt("groq", FALSE), Attempt("groq", FALSE)>>
                   ELSE <<>>
         IN IF l.gemini_client /\ gemini_ok
            THEN [response |-> [text |-> GEMINI_TEXT, provider |-> "gemini",
                                fallback_used |-> TRUE],
                  llm |-> Bump(Bump(l1, "gemini_success"), "gemini_fallback"),
                  calls |-> c1 \o <<Attempt("gemini", TRUE)>>]
            ELSE [response |-> NULL,
                  llm |-> Bump(l1, "total_failures"),
                  calls |-> c1 \o (IF l.gemini_client
                                   THEN <<Attempt("gemini", FALSE)>> ELSE <<>>)]

\* HybridLLMProvider.generate_full; groq_ok / gemini_ok say whether the backend,
\* if tried, returns non-empty text (anything else makes _try_* return None)
generate_full(l, groq_ok, gemini_ok) ==
    IF l.groq_client /\ groq_ok
    THEN [response |-> [text |-> GROQ_TEXT, provider |-> "groq",
                        fallback_used |-> FALSE],
          llm |-> Bump(l, "groq_success"),
          calls |-> <<Attempt("groq", TRUE)>>]
    ELSE LET l1 == IF l.groq_client THEN Bump(l, "groq_failure") ELSE l
             c1 == IF l.groq_client THEN <<Attempt("groq", FALSE)>> ELSE <<>>
         IN IF l.gemini_client /\ gemini_ok
            THEN [response |-> [text |-> GEMINI_TEXT, provider |-> "gemini",
                                fallback_used |-> TRUE],
                  llm |-> Bump(Bump(l1, "gemini_success"), "gemini_fallback"),
                  calls |-> c1 \o <<Attempt("gemini", TRUE)>>]
            ELSE [response |-> NULL,
                  llm |-> Bump(l1, "total_failures"),
                  calls |-> c1 \o (IF l.gemini_client
                                   THEN <<Attempt("gemini", FALSE)>> ELSE <<>>)]

\* total_failures survives the reset (mutant of reset_stats)
reset_stats_keep_failures(l) ==
    [l EXCEPT !.stats = [LlmInit.stats EXCEPT
                            !.total_failures = l.stats.total_failures]]

\* HybridLLMProvider.reset_stats
reset_stats(l) == [l EXCEPT !.stats = LlmInit.stats]

\* what the two backends answer to one generation: Gemini is only asked when
\* Groq gave nothing
GenOutcomes ==
    {[groq_ok |-> TRUE, gemini_ok |-> TRUE],
     [groq_ok |-> FALSE, gemini_ok |-> TRUE],
     [groq_ok |-> FALSE, gemini_ok |-> FALSE]}

\* HybridLLMProvider.generate: the text, or None
generate(l, groq_ok, gemini_ok) ==
    TheOne({[text |-> IF r.response = NULL THEN None ELSE r.response.text,
             llm |-> r.llm,
             calls |-> <<[op |-> "generate"]>> \o r.calls] :
                r \in {generate_full(l, groq_ok, gemini_ok)}})

-----------------------------------------------------------------------------
(* Deterministic data engine *)

\* what db.get_saved_items does: returns n items, or raises with a message
StoreOutcomes ==
    {[ok |-> TRUE, n |-> n] : n \in 0..MaxRecords}
        \cup {[ok |-> FALSE, text |-> t] : t \in {"", "503 unavailable"}}

\* a failure reported as an empty successful result
empty_result(message) ==
    [success |-> TRUE, data |-> NULL, count |-> 0, message |-> message]

\* DeterministicDataEngine._error_response
error_response(message) ==
    [success |-> FALSE, data |-> NULL, count |-> 0, message |-> message,
     error |-> TRUE]

\* get_personal_recommendations: _get_user_profile and _query_listings are
\* placeholders returning no preferences and no listings
get_personal_recommendations(user_id) ==
    [success |-> TRUE, data |-> <<>>, count |-> 0, user_preferences |-> <<>>,
     message |-> "Found " \o ToString(0) \o " recommendations"]

get_saved_items(user_id, store) ==
    IF store.ok
    THEN [success |-> TRUE, data |-> [items |-> store.n], count |-> store.n,
          message |-> "Found " \o ToString(store.n) \o " saved items"]
    ELSE error_response(store.text)

\* get_partner_analytics: _query_analytics is a placeholder returning zeros
get_partner_analytics(partner_id) ==
    [success |-> TRUE,
     data |-> [views |-> 0, clicks |-> 0, bookings |-> 0, conversion_rate |-> 0,
               top_listings |-> <<>>],
     time_range |-> "last_30_days", count |-> 0,
     message |-> "Analytics retrieved successfully"]

\* get_partner_revenue: _query_bookings is a placeholder returning no bookings
get_partner_revenue(partner_id) ==
    [success |-> TRUE,
     data |-> [total_revenue |-> 0, total_bookings |-> 0,
               average_booking_value |-> 0, bookings |-> <<>>,
               currency |-> "USD"],
     time_range |-> "last_30_days", count |-> 0,
     message |-> "Revenue calculated for " \o ToString(0) \o " bookings"]

\* get_system_analytics: the counters are placeholders returning 0; no count key
get_system_analytics ==
    [success |-> TRUE,
     data |-> [total_users |-> 0, total_partners |-> 0, total_listings |-> 0,
               total_bookings |-> 0, total_revenue |-> 0],
     time_range |-> "last_30_days",
     message |-> "System analytics retrieved successfully"]

get_system_revenue ==
    [success |-> TRUE,
     data |-> [total_revenue |-> 0, total_bookings |-> 0, currency |-> "USD"],
     time_range |-> "last_30_days",
     message |-> "System revenue retrieved successfully"]

\* get_pending_moderation: both queries are placeholders returning nothing
get_pending_moderation ==
    [success |-> TRUE,
     data |-> [pending_partners |-> <<>>, flagged_listings |-> <<>>,
               total_pending |-> 0],
     count |-> 0, message |-> "Moderation queue retrieved successfully"]

\* the handler execute dispatches to, with the id it is given
Lookup(name, id) == [op |-> "lookup", name |-> name, id |-> id]

\* DeterministicDataEngine.execute: the envelope and the lookups made
execute(intent, user_id, partner_id, role, store) ==
    CASE intent = RECOMMENDATION ->
            [ret |-> get_personal_recommendations(user_id),
             calls |-> <<Lookup("get_personal_recommendations", user_id)>>]
      [] intent = SAVED_ITEMS ->
            [ret |-> get_saved_items(user_id, store),
             calls |-> <<Lookup("get_saved_items", user_id)>>]
      [] intent = ANALYTICS ->
            IF role = ADMIN
            THEN [ret |-> get_system_analytics,
                  calls |-> <<Lookup("get_system_analytics", None)>>]
            ELSE IF role = PARTNER /\ Truthy(partner_id)
            THEN [ret |-> get_partner_analytics(partner_id),
                  calls |-> <<Lookup("get_partner_analytics", partner_id)>>]
            ELSE [ret |-> error_response("Analytics not available for this role"),
                  calls |-> <<>>]
      [] intent = REVENUE ->
            IF role = ADMIN
            THEN [ret |-> get_system_revenue,
                  calls |-> <<Lookup("get_system_revenue", None)>>]
            ELSE IF role = PARTNER /\ Truthy(partner_id)
            THEN [ret |-> get_partner_revenue(partner_id),
                  calls |-> <<Lookup("get_partner_revenue", partner_id)>>]
            ELSE [ret |-> error_response("Revenue data not available for this role"),
                  calls |-> <<>>]
      [] intent = MODERATION ->
            IF role = ADMIN
            THEN [ret |-> get_pending_moderation,
                  calls |-> <<Lookup("get_pending_moderation", None)>>]
            ELSE [ret |-> error_response("Moderation access denied"),
                  calls |-> <<>>]
      [] OTHER ->
            [ret |-> error_response("Intent " \o intent
                                        \o " not handled by data engine"),
             calls |-> <<>>]

\* the only handlers that read the store
StoreOutcomesFor(intent) ==
    IF intent = SAVED_ITEMS THEN StoreOutcomes ELSE {[ok |-> TRUE, n |-> 0]}

-----------------------------------------------------------------------------
(* Retrieval engine (RAGEngine) *)

\* RAGEngine.similarity_threshold, 0.75 in hundredths
SIMILARITY_THRESHOLD == 75
MAX_CHUNKS == 5

DATA_REFUSAL ==
    "I cannot provide analytics or revenue data. Please use the analytics dashboard or ask an admin."
INSUFFICIENT_REFUSAL ==
    "I don't have enough information to answer that question accurately. Please contact support or check the help documentation."
NO_GENERATION_APOLOGY ==
    "I apologize, but I couldn't generate a response. Please try again."

\* scores (1 - distance) a search result can have, in hundredths
ChunkScores == {74, 75, 90}

\* a search result: its metadata is a dict, or None for a document stored
\* without metadata
Chunks ==
    [text : {"chunk text"},
     metadata : {NULL, [source |-> "Refund Policy", section |-> "Refunds"]},
     score : ChunkScores]

\* what collection.query returns: up to max_results chunks, nearest first
Hits ==
    {h \in UNION {[1..n -> Chunks] : n \in 0..MaxHits} :
        /\ Len(h) <= MAX_CHUNKS
        /\ \A i \in 1..(Len(h) - 1) : h[i].score >= h[i + 1].score}

\* the search returns results, or raises
SearchOutcomes == {[ok |-> FALSE]} \cup {[ok |-> TRUE, hits |-> h] : h \in Hits}

\* RAGEngine._refusal_response
refusal_response(message) ==
    [success |-> FALSE, response |-> message, citations |-> <<>>,
     chunk_count |-> 0, scores |-> <<>>, context |-> NULL, refusal |-> TRUE]

\* RAGEngine._select_collection
select_collection(intent) ==
    IF intent = POLICY THEN "skyconnect_policies" ELSE "skyconnect_help_docs"

\* RAGEngine._semantic_search: an exception of the search is caught and gives []
semantic_search(search) == IF search.ok THEN search.hits ELSE <<>>

\* a chunk below the threshold is kept too (mutant of filter_by_similarity)
filter_keep_all(results, threshold) == results

\* RAGEngine._filter_by_similarity
filter_by_similarity(results, threshold) ==
    SelectSeq(results, LAMBDA r : r.score >= threshold)

\* RAGEngine._assemble_context; chunk["metadata"].get raises on None
assemble_raises(chunks) == \E i \in DOMAIN chunks : chunks[i].metadata = NULL

\* the citations are numbered from 0 (mutant of assemble_context)
assemble_context_from_zero(chunks) ==
    [context |-> [parts |-> [i \in DOMAIN chunks |->
                                [marker |-> "[Source " \o ToString(i) \o "]",
                                 text |-> chunks[i].text]]],
     citations |-> [i \in DOMAIN chunks |->
                    [id |-> i - 1,
                     source |-> Get(chunks[i].metadata, "source", "Unknown"),
                     section |-> Get(chunks[i].metadata, "section", ""),
                     score |-> chunks[i].score]]]

assemble_context(chunks) ==
    [context |-> [parts |-> [i \in DOMAIN chunks |->
                                [marker |-> "[Source " \o ToString(i) \o "]",
                                 text |-> chunks[i].text]]],
     citations |-> [i \in DOMAIN chunks |->
                    [id |-> i,
                     source |-> Get(chunks[i].metadata, "source", "Unknown"),
                     section |-> Get(chunks[i].metadata, "section", ""),
                     score |-> chunks[i].score]]]

\* the containment check is dropped (mutant of StructuredOnlyIntent)
StructuredOnlyIntentNever(intent) == FALSE

\* the containment check of RAGEngine.query
StructuredOnlyIntent(intent) == intent \in {ANALYTICS, REVENUE, SAVED_ITEMS}

\* RAGEngine.query from the assembly of the context on
rag_answer(relevant_chunks, l, groq_ok, gemini_ok) ==
    TheOne({[ret |-> [success |-> TRUE,
                      response |-> IF gen.text /= None THEN gen.text
                                   ELSE NO_GENERATION_APOLOGY,
                      citations |-> assemble_context(relevant_chunks).citations,
                      chunk_count |-> Len(relevant_chunks),
                      scores |-> [i \in DOMAIN relevant_chunks |->
                                     relevant_chunks[i].score],
                      context |-> assemble_context(relevant_chunks).context],
             exc |-> None,
             calls |-> gen.calls,
             llm |-> gen.llm] : gen \in {generate(l, groq_ok, gemini_ok)}})

\* RAGEngine.query from the similarity filter on
rag_filtered(relevant_chunks, l, groq_ok, gemini_ok) ==
    IF relevant_chunks = <<>>
    THEN [ret |-> refusal_response(INSUFFICIENT_REFUSAL), exc |-> None,
          calls |-> <<>>, llm |-> l]
    ELSE IF assemble_raises(relevant_chunks)
    THEN [ret |-> NULL, exc |-> "AttributeError", calls |-> <<>>, llm |-> l]
    ELSE rag_answer(relevant_chunks, l, groq_ok, gemini_ok)

\* RAGEngine.query: ret is the dict returned, exc the exception that escapes
rag_query(intent, search, l, groq_ok, gemini_ok) ==
    IF StructuredOnlyIntent(intent)
    THEN [ret |-> refusal_response(DATA_REFUSAL), exc |-> None,
          calls |-> <<>>, llm |-> l]
    ELSE TheOne({[r EXCEPT !.calls =
                    <<[op |-> "similarity_search",
                       collection |-> select_collection(intent)]>> \o @] :
            r \in {rag_filtered(
                      filter_by_similarity(semantic_search(search),
                                           SIMILARITY_THRESHOLD),
                      l, groq_ok, gemini_ok)}})

-----------------------------------------------------------------------------
(* Query router *)

CLARIFICATION ==
    "I'm not sure I understand your question. Could you please rephrase? I can help with: ..."

SUGGESTIONS ==
    <<"Show me beach resorts", "What have I saved?",
      "How many views did I get?", "What's the refund policy?">>

\* f"{x:.2f}" of a whole number
Money(n) == ToString(n) \o ".00"

\* QueryRouter._determine_data_source
determine_data_source(meta) ==
    IF meta.requires_db /\ ~meta.requires_rag THEN DATABASE
    ELSE IF meta.requires_rag /\ ~meta.requires_db THEN VECTOR_DB
    ELSE IF meta.requires_db /\ meta.requires_rag THEN HYBRID
    ELSE NONE

\* QueryRouter._format_simple
format_simple(data, intent) ==
    IF ~Get(data, "success", FALSE)
    THEN Get(data, "message", "No data available")
    ELSE IF intent = ANALYTICS
    THEN "Analytics: " \o ToString(Get(data, "count", 0)) \o " items found"
    ELSE IF intent = SAVED_ITEMS
    THEN "You have " \o ToString(Get(data, "count", 0)) \o " saved items"
    ELSE IF intent = REVENUE
    THEN "Revenue: $" \o Money(Get(data, "total", 0))
    ELSE Get(data, "message", "Query completed successfully")

\* QueryRouter._format_with_llm and _synthesize_hybrid: the generated text, or
\* the simple format when the provider returns None
format_with_llm(data, intent, l, groq_ok, gemini_ok) ==
    TheOne({[text |-> IF gen.text /= None THEN gen.text
                      ELSE format_simple(data, intent),
             llm |-> gen.llm, calls |-> gen.calls] :
                gen \in {generate(l, groq_ok, gemini_ok)}})

\* the call db_engine.execute as the router makes it
DbExecute(intent, user_id, partner_id, role) ==
    [op |-> "db_execute", intent |-> intent, user_id |-> user_id,
     partner_id |-> partner_id, role |-> role]

\* the call rag_engine.query as the router makes it
RagQuery(intent, role) == [op |-> "rag_query", intent |-> intent, role |-> role]

\* the formatted text of a database envelope: by the provider when formatting
\* is enabled and the envelope is a success, else the simple format
format_database(raw_data, intent, enable, l, groq_ok, gemini_ok) ==
    IF enable /\ Get(raw_data, "success", FALSE)
    THEN format_with_llm(raw_data, intent, l, groq_ok, gemini_ok)
    ELSE [text |-> format_simple(raw_data, intent), llm |-> l, calls |-> <<>>]

\* _route_to_database after db_engine.execute returned db
database_response(intent, user_id, partner_id, role, enable, l, db, groq_ok, gemini_ok) ==
    TheOne({[ret |-> QueryResponse(intent, role, DATABASE, fmt.text,
                        [source |-> "database",
                         record_count |-> Get(db.ret, "count", 0),
                         llm_formatted |-> enable],
                        db.ret),
             exc |-> None,
             calls |-> <<DbExecute(intent, user_id, partner_id, role)>>
                         \o db.calls \o fmt.calls,
             llm |-> fmt.llm] :
        fmt \in {format_database(db.ret, intent, enable, l, groq_ok, gemini_ok)}})

\* QueryRouter._route_to_database
route_to_database(intent, user_id, partner_id, role, enable, l, store, groq_ok, gemini_ok) ==
    TheOne({database_response(intent, user_id, partner_id, role, enable, l, db,
                              groq_ok, gemini_ok) :
                db \in {execute(intent, user_id, partner_id, role, store)}})

\* QueryRouter._route_to_rag
route_to_rag(intent, role, l, search, groq_ok, gemini_ok) ==
    TheOne({IF rag.exc /= None
            THEN [ret |-> NULL, exc |-> rag.exc,
                  calls |-> <<RagQuery(intent, role)>> \o rag.calls,
                  llm |-> rag.llm]
            ELSE [ret |-> QueryResponse(intent, role, VECTOR_DB, rag.ret.response,
                            [source |-> "vector_db",
                             chunks_retrieved |-> Get(rag.ret, "chunk_count", 0),
                             similarity_scores |-> Get(rag.ret, "scores", <<>>),
                             citations |-> Get(rag.ret, "citations", <<>>)],
                            Get(rag.ret, "context", NULL)),
                  exc |-> None,
                  calls |-> <<RagQuery(intent, role)>> \o rag.calls,
                  llm |-> rag.llm] :
        rag \in {rag_query(intent, search, l, groq_ok, gemini_ok)}})

\* the text _route_hybrid answers with: synthesized by the provider when
\* formatting is enabled, else the simple format of the database envelope
format_hybrid(db_data, intent, enable, l, g2) ==
    IF enable
    THEN format_with_llm(db_data, intent, l, g2.groq_ok, g2.gemini_ok)
    ELSE [text |-> format_simple(db_data, intent), llm |-> l, calls |-> <<>>]

\* _route_hybrid after db_engine.execute returned db and rag_engine.query rag
hybrid_response(intent, user_id, partner_id, role, enable, db, rag, g2) ==
    IF rag.exc /= None
    THEN [ret |-> NULL, exc |-> rag.exc,
          calls |-> <<DbExecute(intent, user_id, partner_id, role)>> \o db.calls
                      \o <<RagQuery(intent, role)>> \o rag.calls,
          llm |-> rag.llm]
    ELSE TheOne({[ret |-> QueryResponse(intent, role, HYBRID, fmt.text,
                            [source |-> "hybrid",
                             db_records |-> Get(db.ret, "count", 0),
                             rag_chunks |-> Get(rag.ret, "chunk_count", 0)],
                            [database |-> db.ret,
                             rag |-> Get(rag.ret, "context", NULL)]),
                  exc |-> None,
                  calls |-> <<DbExecute(intent, user_id, partner_id, role)>>
                              \o db.calls \o <<RagQuery(intent, role)>>
                              \o rag.calls \o fmt.calls,
                  llm |-> fmt.llm] :
            fmt \in {format_hybrid(db.ret, intent, enable, rag.llm, g2)}})

\* QueryRouter._route_hybrid; g1 is the backends' outcome for the retrieval
\* synthesis, g2 for the combined synthesis
route_hybrid(intent, user_id, partner_id, role, enable, l, store, search, g1, g2) ==
    TheOne({hybrid_response(intent, user_id, partner_id, role, enable, db, rag, g2) :
                db \in {execute(intent, user_id, partner_id, role, store)},
                rag \in {rag_query(intent, search, l, g1.groq_ok, g1.gemini_ok)}})

\* QueryRouter._handle_unknown_intent
handle_unknown_intent ==
    QueryResponse(UNKNOWN, TRAVELER, NONE, CLARIFICATION,
                  [clarification_requested |-> TRUE, suggestions |-> SUGGESTIONS],
                  NULL)

\* str(e) of the exceptions that can be raised inside routing
ExceptionText(exc) ==
    IF exc = "AttributeError"
    THEN "'NoneType' object has no attribute 'get'"
    ELSE exc

\* the raw data is left on the response (mutant of strip_raw_data)
keep_raw_data(raw_data, include_raw_data) == raw_data

\* if not include_raw_data: response.raw_data = None
strip_raw_data(raw_data, include_raw_data) ==
    IF include_raw_data THEN raw_data ELSE NULL

\* QueryResponse.to_dict; latency_ms is a clock reading and is left out
to_dict(r) ==
    Merge([intent |-> r.intent, role_scope |-> r.role,
           data_source |-> r.data_source, response |-> r.response,
           metadata |-> r.metadata],
          IF r.raw_data /= NULL THEN [raw_data |-> r.raw_data]
          ELSE [x \in {} |-> NULL])

\* the engine route dispatches to for the data source
dispatch(meta, role, user_id, partner_id, enable, l, store, search, g1, g2) ==
    CASE determine_data_source(meta) = DATABASE ->
            route_to_database(meta.intent, user_id, partner_id, role, enable, l,
                              store, g1.groq_ok, g1.gemini_ok)
      [] determine_data_source(meta) = VECTOR_DB ->
            route_to_rag(meta.intent, role, l, search, g1.groq_ok, g1.gemini_ok)
      [] determine_data_source(meta) = HYBRID ->
            route_hybrid(meta.intent, user_id, partner_id, role, enable, l,
                         store, search, g1, g2)
      [] OTHER ->
            [ret |-> handle_unknown_intent, exc |-> None, calls |-> <<>>,
             llm |-> l]

\* QueryRouter.route: the response returned, the engine and backend calls made
route(meta, validation, user_id, partner_id, include_raw_data, enable, l, store, search, g1, g2) ==
    TheOne({IF routed.exc /= None
            THEN [ret |-> QueryResponse(meta.intent, validation.role, NONE,
                            APOLOGY,
                            [error |-> ExceptionText(routed.exc),
                             error_type |-> routed.exc],
                            NULL),
                  calls |-> routed.calls, llm |-> routed.llm]
            ELSE [ret |-> [routed.ret EXCEPT
                            !.metadata = Merge(@,
                                [intent_confidence |-> meta.confidence,
                                 classification_method |-> meta.method]),
                            !.raw_data = strip_raw_data(@, include_raw_data)],
                  calls |-> routed.calls, llm |-> routed.llm] :
        routed \in {dispatch(meta, validation.role, user_id, partner_id, enable,
                             l, store, search, g1, g2)}})

\* what the environment can answer to the calls routing makes for this source
StoreChoices(meta) ==
    IF determine_data_source(meta) \in {DATABASE, HYBRID}
    THEN StoreOutcomesFor(meta.intent) ELSE {[ok |-> TRUE, n |-> 0]}

SearchChoices(meta) ==
    IF determine_data_source(meta) \in {VECTOR_DB, HYBRID}
          /\ ~StructuredOnlyIntent(meta.intent)
    THEN SearchOutcomes ELSE {[ok |-> FALSE]}

\* how many generations a routing asks for; a generation that gives nothing
\* never changes which calls follow
GenerationsAsked(c) ==
    Cardinality({i \in DOMAIN c : c[i].op = "generate"})

\* the backends answer the generations that are asked
GenChoices(asked, k) ==
    IF asked >= k THEN GenOutcomes ELSE {[groq_ok |-> TRUE, gemini_ok |-> TRUE]}

\* QueryRouter.route as one step
RouteCall ==
    /\ pc = "route"
    /\ \E store \in StoreChoices(intent_meta),
          search \in SearchChoices(intent_meta) :
          \E asked \in {GenerationsAsked(
                          route(intent_meta, role_validation, args.user_id,
                                args.partner_id, args.include_raw_data,
                                enable_llm_formatting, llm, store, search,
                                [groq_ok |-> TRUE, gemini_ok |-> TRUE],
                                [groq_ok |-> TRUE, gemini_ok |-> TRUE]).calls)} :
             \E g1 \in GenChoices(asked, 1), g2 \in GenChoices(asked, 2) :
                \E r \in {route(intent_meta, role_validation, args.user_id,
                                args.partner_id, args.include_raw_data,
                                enable_llm_formatting, llm, store, search,
                                g1, g2)} :
                   /\ response' = r.ret
                   /\ calls' = calls \o r.calls
                   /\ llm' = r.llm
    /\ pc' = "done"
    /\ UNCHANGED <<args, intent_meta, role_validation, raised,
                   EMBEDDINGS_AVAILABLE, embedding_model, example_embeddings,
                   enable_llm_formatting>>

-----------------------------------------------------------------------------
(* HybridAISystem.query *)

\* HybridAISystem._create_access_denied_response
create_access_denied_response(validation) ==
    QueryResponse(validation.intent, validation.role, NONE,
                  "Access denied: " \o validation.reason
                      \o "\n\nYour current role (" \o validation.role
                      \o ") does not have permission to perform this action.",
                  [error |-> "access_denied", role |-> validation.role,
                   intent |-> validation.intent],
                  NULL)

\* the owner checked is always the caller, whatever partner_id is routed
\* (mutant of OrElse)
AlwaysSecond(a, b) == b

\* partner_id or user_id
OrElse(a, b) == IF Truthy(a) THEN a ELSE b

\* the denial is ignored and the query is routed (mutant of AccessDenied)
AccessDeniedNever(validation) == FALSE

\* if not role_validation.allowed
AccessDenied(validation) == ~validation.allowed

\* step 2 of query: UserRole(role) raises ValueError for a string that names no
\* role; a denied validation returns the access-denied response
QueryValidate ==
    /\ pc = "validate"
    /\ args.op = "query"
    /\ IF args.role \notin UserRole
       THEN /\ Escapes("ValueError")
            /\ UNCHANGED role_validation
       ELSE \E order \in Orderings(INTENT_ROLE_PERMISSIONS[intent_meta.intent]) :
               \E validation \in {validate(args.user_id, args.role,
                                            intent_meta.intent,
                                            OrElse(args.partner_id, args.user_id),
                                            order)} :
                  /\ role_validation' = validation
                  /\ raised' = raised
                  /\ IF AccessDenied(validation)
                     THEN /\ response' = create_access_denied_response(validation)
                          /\ pc' = "done"
                     ELSE /\ response' = response
                          /\ pc' = "route"
    /\ UNCHANGED <<args, intent_meta, calls, EMBEDDINGS_AVAILABLE,
                   embedding_model, example_embeddings, enable_llm_formatting,
                   llm>>

-----------------------------------------------------------------------------
(* Specification of RoleValidator.validate called on its own *)

InitValidator ==
    /\ pc = "validate"
    /\ args \in [op : {"validate"}, user_id : UserIds, role : UserRole,
                 intent : Intent, resource_owner_id : OptIds]
    /\ intent_meta = NULL
    /\ role_validation = NULL
    /\ response = NULL
    /\ raised = None
    /\ calls = <<>>
    /\ EMBEDDINGS_AVAILABLE = TRUE
    /\ embedding_model = None
    /\ example_embeddings = {}
    /\ enable_llm_formatting = TRUE
    /\ llm = LlmInit

ValidateCall ==
    /\ pc = "validate"
    /\ \E order \in Orderings(INTENT_ROLE_PERMISSIONS[args.intent]) :
          role_validation' = validate(args.user_id, args.role, args.intent,
                                      args.resource_owner_id, order)
    /\ pc' = "done"
    /\ UNCHANGED <<args, intent_meta, response, raised, calls,
                   EMBEDDINGS_AVAILABLE, embedding_model, example_embeddings,
                   enable_llm_formatting, llm>>

NextValidator == ValidateCall

SpecValidator == InitValidator /\ [][NextValidator]_vars

-----------------------------------------------------------------------------
(* Specification of HybridLLMProvider.generate_full called on its own *)

\* the providers a configuration can build: a backend without API key, or
\* whose client cannot be built, stays None
LlmConfigs ==
    {[LlmInit EXCEPT !.groq_client = groq, !.gemini_client = gemini] :
        groq \in BOOLEAN, gemini \in BOOLEAN}

\* every call ends in exactly one of these counters
CallsEnded(l) ==
    l.stats.groq_success + l.stats.gemini_success + l.stats.total_failures

InitLLM ==
    /\ pc = "idle"
    /\ args = NULL
    /\ intent_meta = NULL
    /\ role_validation = NULL
    /\ response = NULL
    /\ raised = None
    /\ calls = <<>>
    /\ EMBEDDINGS_AVAILABLE = TRUE
    /\ embedding_model = None
    /\ example_embeddings = {}
    /\ enable_llm_formatting = TRUE
    /\ llm \in LlmConfigs

\* one generate_full call from start to return; args.before is the stats the
\* call found, calls the attempts it made, response the LLMResponse or None
GenerateFullCall ==
    /\ pc \in {"idle", "done"}
    /\ CallsEnded(llm) < MaxCalls
    /\ \E g \in GenOutcomes :
          \E r \in {generate_full(llm, g.groq_ok, g.gemini_ok)} :
             /\ response' = r.response
             /\ calls' = r.calls
             /\ llm' = r.llm
    /\ args' = [op |-> "generate_full", before |-> llm.stats]
    /\ pc' = "done"
    /\ UNCHANGED <<intent_meta, role_validation, raised, EMBEDDINGS_AVAILABLE,
                   embedding_model, example_embeddings, enable_llm_formatting>>

\* one generate call: the text of generate_full's response, or None
GenerateCall ==
    /\ pc \in {"idle", "done"}
    /\ CallsEnded(llm) < MaxCalls
    /\ \E g \in GenOutcomes :
          \E r \in {generate(llm, g.groq_ok, g.gemini_ok)} :
             /\ response' = r.text
             /\ calls' = r.calls
             /\ llm' = r.llm
    /\ args' = [op |-> "generate", before |-> llm.stats]
    /\ pc' = "done"
    /\ UNCHANGED <<intent_meta, role_validation, raised, EMBEDDINGS_AVAILABLE,
                   embedding_model, example_embeddings, enable_llm_formatting>>

\* HybridLLMProvider.reset_stats, between calls
ResetStats ==
    /\ pc = "done"
    /\ llm' = reset_stats(llm)
    /\ pc' = "idle"
    /\ args' = NULL
    /\ response' = NULL
    /\ calls' = <<>>
    /\ UNCHANGED <<intent_meta, role_validation, raised, EMBEDDINGS_AVAILABLE,
                   embedding_model, example_embeddings, enable_llm_formatting>>

NextLLM == GenerateFullCall \/ GenerateCall \/ ResetStats

SpecLLM == InitLLM /\ [][NextLLM]_vars

-----------------------------------------------------------------------------
(* Specification of concurrent generate_full calls on the shared provider.
   The calls are coroutines of one event loop: a call gives way to the others
   only at an await, so each stretch of generate_full between two awaits is
   one step. pc, args and response are per call here. *)

Tasks == 1..NumTasks

\* the provider a "self.stats[k] += 1" of the running call reads: the shared
\* object as it is at that statement (mutant of StatsRead: the object as the
\* call saw it before its await)
StatsReadBeforeAwait(shared, before_await) == before_await

\* the provider a "self.stats[k] += 1" of the running call reads: the shared
\* object as it is at that statement, no await lies between read and write
StatsRead(shared, before_await) == shared

\* LLMResponse
LLMResponse(text, provider, fallback_used) ==
    [text |-> text, provider |-> provider, fallback_used |-> fallback_used]

\* the locals of one call: the results of the awaits so far, and the provider
\* as the call last saw it
TaskLocals(groq, gemini, seen) == [groq |-> groq, gemini |-> gemini, seen |-> seen]

InitTasks ==
    /\ llm \in LlmConfigs
    /\ pc = [t \in Tasks |-> "start"]
    /\ args = [t \in Tasks |-> TaskLocals("untried", "untried", llm)]
    /\ response = [t \in Tasks |-> NULL]
    /\ intent_meta = NULL
    /\ role_validation = NULL
    /\ raised = None
    /\ calls = <<>>
    /\ EMBEDDINGS_AVAILABLE = TRUE
    /\ embedding_model = None
    /\ example_embeddings = {}
    /\ enable_llm_formatting = TRUE

\* the step of call t ends: its pc, locals and result, and the shared provider
TaskMoves(t, to, groq, gemini, l, result) ==
    /\ pc' = [pc EXCEPT ![t] = to]
    /\ args' = [args EXCEPT ![t] = TaskLocals(groq, gemini, l)]
    /\ response' = [response EXCEPT ![t] = result]
    /\ llm' = l
    /\ UNCHANGED <<intent_meta, role_validation, raised, calls,
                   EMBEDDINGS_AVAILABLE, embedding_model, example_embeddings,
                   enable_llm_formatting>>

\* from the entry of generate_full to its first await, or to its return when
\* no client is configured
TaskStart(t) ==
    /\ pc[t] = "start"
    /\ IF llm.groq_client
       THEN TaskMoves(t, "await_groq", "untried", "untried", llm, NULL)
       ELSE IF llm.gemini_client
       THEN TaskMoves(t, "await_gemini", "untried", "untried", llm, NULL)
       ELSE TaskMoves(t, "done", "untried", "untried",
                      Bump(StatsRead(llm, args[t].seen), "total_failures"), NULL)

\* from the return of "await self._try_groq(...)" to the next await or return
TaskAfterGroq(t) ==
    /\ pc[t] = "await_groq"
    /\ \E groq_ok \in BOOLEAN :
          IF groq_ok
          THEN TaskMoves(t, "done", "ok", "untried",
                         Bump(StatsRead(llm, args[t].seen), "groq_success"),
                         LLMResponse(GROQ_TEXT, "groq", FALSE))
          ELSE \E l1 \in {Bump(StatsRead(llm, args[t].seen), "groq_failure")} :
                  IF llm.gemini_client
                  THEN TaskMoves(t, "await_gemini", "failed", "untried", l1, NULL)
                  ELSE TaskMoves(t, "done", "failed", "untried",
                                 Bump(l1, "total_failures"), NULL)

\* from the return of "await self._try_gemini(...)" to the return
TaskAfterGemini(t) ==
    /\ pc[t] = "await_gemini"
    /\ \E gemini_ok \in BOOLEAN :
          IF gemini_ok
          THEN TaskMoves(t, "done", args[t].groq, "ok",
                         Bump(Bump(StatsRead(llm, args[t].seen),
                                   "gemini_success"), "gemini_fallback"),
                         LLMResponse(GEMINI_TEXT, "gemini", TRUE))
          ELSE TaskMoves(t, "done", args[t].groq, "failed",
                         Bump(StatsRead(llm, args[t].seen), "total_failures"),
                         NULL)

NextTasks ==
    \E t \in Tasks : TaskStart(t) \/ TaskAfterGroq(t) \/ TaskAfterGemini(t)

SpecTasks == InitTasks /\ [][NextTasks]_vars

-----------------------------------------------------------------------------
(* Document ingestion: RAGEngine._semantic_chunk and index_*_document.
   A text is a sequence of characters. *)

NL == "\n"

\* the characters of the modelled documents
Chars == {"a", NL}

Texts == UNION {[1..n -> Chars] : n \in 0..MaxTextLen}

\* characters str.strip() removes
Whitespace == {" ", NL}

RECURSIVE lstrip(_)
lstrip(text) ==
    IF text = <<>> THEN <<>>
    ELSE IF Head(text) \in Whitespace THEN lstrip(Tail(text))
    ELSE text

RECURSIVE rstrip(_)
rstrip(text) ==
    IF text = <<>> THEN <<>>
    ELSE IF text[Len(text)] \in Whitespace
    THEN rstrip(SubSeq(text, 1, Len(text) - 1))
    ELSE text

\* str.strip()
strip(text) == rstrip(lstrip(text))

\* text.split("\n\n"): parts is the list so far, part the piece being read
RECURSIVE split_paragraphs(_, _, _)
split_paragraphs(text, parts, part) ==
    IF text = <<>> THEN Append(parts, part)
    ELSE IF Len(text) >= 2 /\ text[1] = NL /\ text[2] = NL
    THEN split_paragraphs(SubSeq(text, 3, Len(text)), Append(parts, part), <<>>)
    ELSE split_paragraphs(Tail(text), parts, Append(part, Head(text)))

\* the loop of _semantic_chunk over the paragraphs left, and the final append
RECURSIVE chunk_paragraphs(_, _, _, _)
chunk_paragraphs(paragraphs, chunks, current_chunk, max_chunk_size) ==
    IF paragraphs = <<>>
    THEN IF current_chunk /= <<>>
         THEN Append(chunks, strip(current_chunk)) ELSE chunks
    ELSE IF Len(current_chunk) + Len(Head(paragraphs)) <= max_chunk_size
    THEN chunk_paragraphs(Tail(paragraphs), chunks,
                          current_chunk \o Head(paragraphs) \o <<NL, NL>>,
                          max_chunk_size)
    ELSE chunk_paragraphs(Tail(paragraphs),
                          IF current_chunk /= <<>>
                          THEN Append(chunks, strip(current_chunk)) ELSE chunks,
                          Head(paragraphs) \o <<NL, NL>>, max_chunk_size)

\* RAGEngine._semantic_chunk
semantic_chunk(text, max_chunk_size) ==
    chunk_paragraphs(split_paragraphs(text, <<>>, <<>>), <<>>, <<>>,
                     max_chunk_size)

\* what collection.add receives from index_policy_document and
\* index_help_document: one id and one metadata per chunk
index_document(collection, document_id, content, chunk_size) ==
    TheOne({[op |-> "add", collection |-> collection,
             ids |-> [i \in DOMAIN chunks |->
                         document_id \o "_chunk_" \o ToString(i - 1)],
             documents |-> chunks,
             metadatas |-> [i \in DOMAIN chunks |->
                               [chunk_index |-> i - 1,
                                total_chunks |-> Len(chunks)]]] :
                chunks \in {semantic_chunk(content, chunk_size)}})

InitIngest ==
    /\ pc = "index"
    /\ args \in [op : {"index_policy_document", "index_help_document"},
                 content : Texts, chunk_size : 1..MaxChunkSize]
    /\ intent_meta = NULL
    /\ role_validation = NULL
    /\ response = NULL
    /\ raised = None
    /\ calls = <<>>
    /\ EMBEDDINGS_AVAILABLE = TRUE
    /\ embedding_model = None
    /\ example_embeddings = {}
    /\ enable_llm_formatting = TRUE
    /\ llm = LlmInit

\* index_policy_document / index_help_document as one step: the chunks are
\* handed to the collection; add raising gives the return value False
IndexDocument ==
    /\ pc = "index"
    /\ \E added \in BOOLEAN :
          /\ calls' = <<index_document(
                          IF args.op = "index_policy_document"
                          THEN "policies" ELSE "help_docs",
                          "doc", args.content, args.chunk_size)>>
          /\ response' = [returned |-> added]
    /\ pc' = "done"
    /\ UNCHANGED <<args, intent_meta, role_validation, raised,
                   EMBEDDINGS_AVAILABLE, embedding_model, example_embeddings,
                   enable_llm_formatting, llm>>

NextIngest == IndexDocument

SpecIngest == InitIngest /\ [][NextIngest]_vars

-----------------------------------------------------------------------------
(* Specification of the formatting of a data-engine envelope (the formatting
   branch of _route_to_database: _format_with_llm or _format_simple) applied
   to the envelopes the handlers of the data engine build *)

\* amounts of the completed bookings a store can hold
Amounts == {100, 250}

Bookings == UNION {[1..n -> Amounts] : n \in 0..MaxRecords}

\* sum(b.get("amount", 0) for b in bookings)
RECURSIVE SumAmounts(_)
SumAmounts(bookings) ==
    IF bookings = <<>> THEN 0
    ELSE Head(bookings) + SumAmounts(Tail(bookings))

\* the envelope get_partner_revenue builds from the bookings _query_bookings
\* returned; the average is in hundredths
partner_revenue(bookings) ==
    [success |-> TRUE,
     data |-> [total_revenue |-> SumAmounts(bookings),
               total_bookings |-> Len(bookings),
               average_booking_value |->
                   IF Len(bookings) > 0
                   THEN (100 * SumAmounts(bookings)) \div Len(bookings) ELSE 0,
               bookings |-> bookings,
               currency |-> "USD"],
     time_range |-> "last_30_days", count |-> Len(bookings),
     message |-> "Revenue calculated for " \o ToString(Len(bookings)) \o " bookings"]

\* the envelopes db_engine.execute can hand to the formatting for an intent
EnvelopesOf(intent) ==
    {execute(intent, u, p, r, st).ret :
        u \in UserIds, p \in OptIds, r \in UserRole, st \in StoreOutcomes}
      \cup (IF intent = REVENUE
            THEN {partner_revenue(b) : b \in Bookings} ELSE {})

InitFormat ==
    /\ pc = "format"
    /\ \E intent \in Intent : \E data \in EnvelopesOf(intent) :
          args = [op |-> "format", intent |-> intent, data |-> data]
    /\ intent_meta = NULL
    /\ role_validation = NULL
    /\ response = NULL
    /\ raised = None
    /\ calls = <<>>
    /\ EMBEDDINGS_AVAILABLE = TRUE
    /\ embedding_model = None
    /\ example_embeddings = {}
    /\ enable_llm_formatting \in BOOLEAN
    /\ llm \in LlmConfigs

\* the formatting branch of _route_to_database as one step: response holds
\* the text
FormatCall ==
    /\ pc = "format"
    /\ \E g \in GenOutcomes :
          \E fmt \in {format_database(args.data, args.intent,
                                      enable_llm_formatting, llm,
                                      g.groq_ok, g.gemini_ok)} :
             /\ response' = [text |-> fmt.text]
             /\ calls' = fmt.calls
             /\ llm' = fmt.llm
    /\ pc' = "done"
    /\ UNCHANGED <<args, intent_meta, role_validation, raised,
                   EMBEDDINGS_AVAILABLE, embedding_model, example_embeddings,
                   enable_llm_formatting>>

NextFormat == FormatCall

SpecFormat == InitFormat /\ [][NextFormat]_vars

-----------------------------------------------------------------------------
(* Specification of DeterministicDataEngine.execute called on its own *)

\* role: Optional[UserRole] = None
OptRoles == UserRole \cup {None}

InitDataEngine ==
    /\ pc = "execute"
    /\ args \in [op : {"execute"}, intent : Intent, user_id : UserIds,
                 partner_id : OptIds, role : OptRoles, store : StoreOutcomes]
    /\ intent_meta = NULL
    /\ role_validation = NULL
    /\ response = NULL
    /\ raised = None
    /\ calls = <<>>
    /\ EMBEDDINGS_AVAILABLE = TRUE
    /\ embedding_model = None
    /\ example_embeddings = {}
    /\ enable_llm_formatting = TRUE
    /\ llm = LlmInit

\* execute as one step; args.store is what db.get_saved_items does. Every
\* handler and execute itself end in "except Exception", so the step ends with
\* the envelope in response and nothing raised
ExecuteCall ==
    /\ pc = "execute"
    /\ \E r \in {execute(args.intent, args.user_id, args.partner_id, args.role,
                          args.store)} :
          /\ response' = r.ret
          /\ calls' = calls \o r.calls
    /\ pc' = "done"
    /\ UNCHANGED <<args, intent_meta, role_validation, raised,
                   EMBEDDINGS_AVAILABLE, embedding_model, example_embeddings,
                   enable_llm_formatting, llm>>

NextDataEngine == ExecuteCall

SpecDataEngine == InitDataEngine /\ [][NextDataEngine]_vars

-----------------------------------------------------------------------------
(* Specification of RAGEngine.query called on its own *)

InitRAG ==
    /\ pc = "rag_query"
    /\ args \in [op : {"rag_query"}, intent : Intent, role : UserRole,
                 search : SearchOutcomes]
    /\ intent_meta = NULL
    /\ role_validation = NULL
    /\ response = NULL
    /\ raised = None
    /\ calls = <<>>
    /\ EMBEDDINGS_AVAILABLE = TRUE
    /\ embedding_model = None
    /\ example_embeddings = {}
    /\ enable_llm_formatting = TRUE
    /\ llm = LlmInit

\* RAGEngine.query as one step; args.search is what the collection answers to
\* a search, response holds the dict query returns
RagQueryCall ==
    /\ pc = "rag_query"
    /\ \E g \in GenOutcomes :
          \E r \in {rag_query(args.intent, args.search, llm,
                              g.groq_ok, g.gemini_ok)} :
             /\ calls' = calls \o r.calls
             /\ llm' = r.llm
             /\ IF r.exc /= None
                THEN Escapes(r.exc)
                ELSE response' = r.ret /\ raised' = raised /\ pc' = "done"
    /\ UNCHANGED <<args, intent_meta, role_validation, EMBEDDINGS_AVAILABLE,
                   embedding_model, example_embeddings, enable_llm_formatting>>

NextRAG == RagQueryCall

SpecRAG == InitRAG /\ [][NextRAG]_vars

\* RAGEngine.query called with a max_chunks of the caller's choice: the
\* collection answers a search with at most n_results = max_chunks chunks
InitRetrieve ==
    /\ pc = "rag_query"
    /\ \E intent \in Intent, role \in UserRole, max_chunks \in 1..MaxHits :
          \E search \in {o \in SearchOutcomes : o.ok => Len(o.hits) <= max_chunks} :
             args = [op |-> "rag_query", intent |-> intent, role |-> role,
                     max_chunks |-> max_chunks, search |-> search]
    /\ intent_meta = NULL
    /\ role_validation = NULL
    /\ response = NULL
    /\ raised = None
    /\ calls = <<>>
    /\ EMBEDDINGS_AVAILABLE = TRUE
    /\ embedding_model = None
    /\ example_embeddings = {}
    /\ enable_llm_formatting = TRUE
    /\ llm \in LlmConfigs

SpecRetrieve == InitRetrieve /\ [][NextRAG]_vars

-----------------------------------------------------------------------------
(* Specification of QueryRouter.route called on its own *)

\* the classifications a caller can hand to route
IntentMetadatas ==
    {IntentMetadata(i, c.confidence, db, rag, c.method) :
        i \in Intent, db \in BOOLEAN, rag \in BOOLEAN,
        c \in {[confidence |-> 100, method |-> "keyword"]}}

\* the validation results a caller can hand to route
RoleValidationResults(intent) ==
    {RoleValidationResult(TRUE, r, intent, ACCESS_GRANTED_REASON,
                          intent \in SCOPE_VALIDATION_REQUIRED) : r \in UserRole}
      \cup {RoleValidationResult(FALSE, r, intent, SCOPE_VIOLATION_REASON, FALSE) :
                r \in UserRole}

InitRouter ==
    /\ pc = "route"
    /\ args \in [op : {"route"}, user_id : {Uid(1)}, partner_id : OptIds,
                 include_raw_data : BOOLEAN]
    /\ intent_meta \in IntentMetadatas
    /\ role_validation \in RoleValidationResults(intent_meta.intent)
    /\ response = NULL
    /\ raised = None
    /\ calls = <<>>
    /\ EMBEDDINGS_AVAILABLE = TRUE
    /\ embedding_model = None
    /\ example_embeddings = {}
    /\ enable_llm_formatting \in BOOLEAN
    /\ llm = LlmInit

NextRouter == RouteCall

SpecRouter == InitRouter /\ [][NextRouter]_vars

-----------------------------------------------------------------------------
(* Specification of HybridAISystem.query *)

\* queries put to the system: one per keyword group, one no keyword matches,
\* and the empty query
SystemQueries ==
    {q \in Queries : q \in {<<>>, <<"hello">>, <<"hotels">>, <<"saved">>,
                            <<"stats">>, <<"revenue">>, <<"partners">>,
                            <<"policy">>, <<"profile">>, <<"errors">>}}

\* role strings a caller can pass; "guest" names no UserRole
RoleStrings == UserRole \cup {"guest"}

\* the classifier singleton as earlier use can have left it: never loaded,
\* or loaded, which takes the package
ClassifierStates(available) ==
    {[model |-> None, table |-> {}]}
      \cup (IF available
            THEN {[model |-> "all-MiniLM-L6-v2",
                   table |-> {INTENT_EXAMPLES[k] : k \in DOMAIN INTENT_EXAMPLES}]}
            ELSE {})

InitSystem ==
    /\ pc = "classify"
    /\ args \in [op : {"query"}, query : SystemQueries, user_id : UserIds,
                 role : RoleStrings, partner_id : OptIds,
                 include_raw_data : {FALSE}]
    /\ intent_meta = NULL
    /\ role_validation = NULL
    /\ response = NULL
    /\ raised = None
    /\ calls = <<>>
    /\ EMBEDDINGS_AVAILABLE \in BOOLEAN
    /\ \E c \in ClassifierStates(EMBEDDINGS_AVAILABLE) :
          embedding_model = c.model /\ example_embeddings = c.table
    /\ enable_llm_formatting \in BOOLEAN
    /\ llm = LlmInit

NextSystem == Classify \/ QueryValidate \/ RouteCall

SpecSystem == InitSystem /\ [][NextSystem]_vars

-----------------------------------------------------------------------------
(* Properties of RoleValidator.validate (SpecValidator) *)

ValidateDone == pc = "done" /\ role_validation /= NULL

\* the (role, intent) pairs the allow-list leaves out, written out
DeniedPairs ==
    {<<ADMIN, SAVED_ITEMS>>, <<PARTNER, MODERATION>>, <<PARTNER, SAVED_ITEMS>>,
     <<TRAVELER, ANALYTICS>>, <<TRAVELER, REVENUE>>, <<TRAVELER, MODERATION>>}

\* every reason string a role (allow-list) denial can carry
RoleDenialReasons ==
    {UNKNOWN_INTENT_REASON} \cup
    UNION {{RoleDeniedReason(r, i, o) : o \in Orderings(INTENT_ROLE_PERMISSIONS[i])} :
           r \in UserRole, i \in Intent}

\* C1: a role outside the intent's allow-list is denied for every user_id and
\* every resource_owner_id; the pairs left out are exactly the listed six, and
\* ADMIN is among the denied (SAVED_ITEMS).
C1_DeniedOutsideAllowList ==
    ValidateDone =>
        /\ (<<args.role, args.intent>> \in DeniedPairs)
              <=> (args.role \notin INTENT_ROLE_PERMISSIONS[args.intent])
        /\ (<<args.role, args.intent>> \in DeniedPairs)
              => role_validation.allowed = FALSE

C1_Witness ==
    /\ ValidateDone
    /\ args.role = ADMIN
    /\ args.intent = SAVED_ITEMS
    /\ args.resource_owner_id = args.user_id
    /\ role_validation.allowed = FALSE

\* the scope-checked call by a permitted non-ADMIN role
ScopedNonAdminCall ==
    /\ ValidateDone
    /\ args.intent \in {ANALYTICS, REVENUE, SAVED_ITEMS}
    /\ args.role /= ADMIN
    /\ args.role \in INTENT_ROLE_PERMISSIONS[args.intent]

ScopeDenied ==
    /\ role_validation.allowed = FALSE
    /\ role_validation.reason = SCOPE_VIOLATION_REASON
    /\ role_validation.reason \notin RoleDenialReasons

\* C2 as stated: a permitted non-ADMIN role with a present (not None)
\* resource_owner_id that differs from user_id is denied with the
\* cross-resource reason, which no role denial produces.
C2_Original ==
    (ScopedNonAdminCall /\ args.resource_owner_id /= None
        /\ args.resource_owner_id /= args.user_id) => ScopeDenied

\* C2 amended: the same for a present and non-empty resource_owner_id; an
\* empty string is treated as no owner and the call is allowed.
C2_ScopeViolationDenied ==
    /\ (ScopedNonAdminCall /\ Truthy(args.resource_owner_id)
          /\ args.resource_owner_id /= args.user_id) => ScopeDenied
    /\ (ScopedNonAdminCall /\ args.resource_owner_id = "")
          => role_validation.allowed = TRUE

C2_Witness ==
    /\ ScopedNonAdminCall
    /\ args.role = PARTNER
    /\ args.resource_owner_id \in UserIds
    /\ args.resource_owner_id /= args.user_id
    /\ role_validation.reason = SCOPE_VIOLATION_REASON

\* ADMIN asking for a resource owned by another user
AdminCrossCall ==
    /\ ValidateDone
    /\ args.role = ADMIN
    /\ args.resource_owner_id \in UserIds
    /\ args.resource_owner_id /= args.user_id

\* C3 as stated: for every scope-checked intent (ANALYTICS, REVENUE,
\* SAVED_ITEMS) ADMIN with user_id A and resource_owner_id B, A /= B, is allowed.
C3_Original ==
    (AdminCrossCall /\ args.intent \in {ANALYTICS, REVENUE, SAVED_ITEMS})
        => role_validation.allowed = TRUE

\* C3 amended: ADMIN with A /= B is allowed for the scope-checked intents whose
\* allow-list holds ADMIN (ANALYTICS, REVENUE); for SAVED_ITEMS the allow-list
\* denies ADMIN.
C3_AdminGlobalScope ==
    /\ (AdminCrossCall /\ args.intent \in {ANALYTICS, REVENUE})
          => role_validation.allowed = TRUE
    /\ (AdminCrossCall /\ args.intent = SAVED_ITEMS)
          => /\ role_validation.allowed = FALSE
             /\ role_validation.reason \in RoleDenialReasons

C3_Witness ==
    /\ AdminCrossCall
    /\ args.intent = REVENUE
    /\ role_validation.allowed = TRUE
    /\ role_validation.requires_scope_validation = TRUE

-----------------------------------------------------------------------------
(* Properties of IntentClassifier.classify (SpecClassifier) *)

ClassifyDone == pc = "done" /\ args /= NULL /\ args.op = "classify"

\* the order of the rule groups the claims name
GroupOrder ==
    <<RECOMMENDATION, SAVED_ITEMS, ANALYTICS, REVENUE, MODERATION, POLICY,
      NAVIGATION, TROUBLESHOOTING>>

MatchingGroups(query) ==
    {g \in DOMAIN KEYWORD_PATTERNS : GroupMatches(KEYWORD_PATTERNS[g], query)}

\* C7: a non-empty query that matches a lexical pattern gets the intent of the
\* first matching group in the order RECOMMENDATION .. TROUBLESHOOTING, also when
\* later groups match, with confidence 1.0 and method keyword, and no call to
\* the embedding backend.
C7_FirstPatternGroupWins ==
    /\ \A g \in DOMAIN KEYWORD_PATTERNS : KEYWORD_PATTERNS[g].intent = GroupOrder[g]
    /\ (ClassifyDone /\ MatchingGroups(args.query) /= {}) =>
          /\ raised = None
          /\ intent_meta /= NULL
          /\ \E g \in MatchingGroups(args.query) :
                /\ \A h \in 1..(g - 1) : h \notin MatchingGroups(args.query)
                /\ intent_meta.intent = GroupOrder[g]
          /\ intent_meta.confidence = 100
          /\ intent_meta.method = "keyword"
          /\ calls = <<>>

C7_Witness ==
    /\ ClassifyDone
    /\ Cardinality(MatchingGroups(args.query)) > 1
    /\ intent_meta /= NULL
    /\ intent_meta.intent = SAVED_ITEMS
    /\ intent_meta.method = "keyword"

\* the embedding fallback of the call that ended compared the query
Embedded ==
    /\ ClassifyDone
    /\ raised = None
    /\ calls /= <<>>
    /\ calls[Len(calls)].op = "encode_query"

LastSims == calls[Len(calls)].sims

BestSimilarity ==
    CHOOSE m \in {LastSims[i] : i \in DOMAIN LastSims} :
        \A i \in DOMAIN LastSims : LastSims[i] <= m

EmbeddingThresholdRule ==
    /\ MatchingGroups(args.query) = {}
    /\ intent_meta /= NULL
    /\ BestSimilarity < 60 =>
          /\ intent_meta.intent = UNKNOWN
          /\ ~intent_meta.requires_db
          /\ ~intent_meta.requires_rag
    /\ BestSimilarity >= 60 =>
          /\ intent_meta.intent \in DOMAIN LastSims
          /\ LastSims[intent_meta.intent] = BestSimilarity
          /\ intent_meta.confidence = BestSimilarity
          /\ intent_meta.method = "embedding"

\* C8: for a query that matches no pattern, a best similarity over all intents
\* below 0.6 gives UNKNOWN with both routing flags false, whichever intent
\* scored best; at or above 0.6 the best-scoring intent is returned with that
\* similarity as confidence and method embedding.
C8_EmbeddingThreshold == Embedded => EmbeddingThresholdRule

\* the same rule for the calls that find every intent in the example table
C8_WithCompleteTable ==
    (Embedded /\ example_embeddings = DOMAIN LastSims) => EmbeddingThresholdRule

\* C9: classify never raises; when the embedding backend is unavailable or
\* fails for a query that matched no pattern it returns UNKNOWN.
C9_ClassifyNeverRaises ==
    ClassifyDone =>
        /\ raised = None
        /\ intent_meta /= NULL
        /\ (calls = <<>> /\ MatchingGroups(args.query) = {})
              => intent_meta.intent = UNKNOWN

\* the handled part of C9: without the sentence-transformers package classify
\* returns UNKNOWN and raises nothing
C9_PackageMissingHandled ==
    (ClassifyDone /\ ~EMBEDDINGS_AVAILABLE) =>
        /\ raised = None
        /\ intent_meta /= NULL
        /\ (MatchingGroups(args.query) = {}) => intent_meta.intent = UNKNOWN


-----------------------------------------------------------------------------
(* Properties of RAGEngine.query (SpecRAG) *)

RagQueryDone == pc = "done" /\ args.op = "rag_query"

\* the calls a retrieval makes to the vector store and the generation provider
SearchOrGenerationCalls ==
    {i \in DOMAIN calls :
        calls[i].op \in {"similarity_search", "generate", "groq", "gemini"}}

\* C10: RAGEngine.query with intent ANALYTICS, REVENUE or SAVED_ITEMS returns
\* success false with the fixed redirect message, no citations and chunk_count
\* 0, and makes no similarity search and no generation call, whatever the
\* corpus holds
C10_StructuredIntentsRefused ==
    (RagQueryDone /\ args.intent \in {ANALYTICS, REVENUE, SAVED_ITEMS}) =>
        /\ raised = None
        /\ response.success = FALSE
        /\ response.response = DATA_REFUSAL
        /\ response.citations = <<>>
        /\ response.chunk_count = 0
        /\ SearchOrGenerationCalls = {}
        /\ llm = LlmInit

C10_Witness ==
    /\ RagQueryDone
    /\ args.intent = REVENUE
    /\ response /= NULL
    /\ response.response = DATA_REFUSAL
    /\ calls = <<>>

\* the scores of the chunks the search found; none when the search failed
CandidateScores ==
    IF args.search.ok
    THEN {args.search.hits[i].score : i \in DOMAIN args.search.hits}
    ELSE {}

GenerationCalls ==
    {i \in DOMAIN calls : calls[i].op \in {"generate", "groq", "gemini"}}

\* C11: RAGEngine.query never returns success true when every candidate chunk
\* scores below 0.75 (empty corpus and failed search included): it returns the
\* insufficient-information refusal without a generation call; a chunk that
\* scores exactly 0.75 is retained
C11_BelowThresholdRefused ==
    RagQueryDone =>
        /\ (\A sc \in CandidateScores : sc < 75) =>
                /\ raised = None
                /\ response.success = FALSE
                /\ GenerationCalls = {}
                /\ llm = LlmInit
                /\ args.intent \notin {ANALYTICS, REVENUE, SAVED_ITEMS} =>
                        response.response = INSUFFICIENT_REFUSAL
        /\ (/\ args.intent \notin {ANALYTICS, REVENUE, SAVED_ITEMS}
            /\ 75 \in CandidateScores
            /\ raised = None) =>
                /\ response.success = TRUE
                /\ 75 \in {response.scores[i] : i \in DOMAIN response.scores}

C11_Witness ==
    /\ RagQueryDone
    /\ args.intent = POLICY
    /\ args.search.ok
    /\ CandidateScores = {74}
    /\ response /= NULL
    /\ response.response = INSUFFICIENT_REFUSAL

\* the generation both backends failed
GenerationFailed ==
    \E i \in DOMAIN calls : calls[i].op = "generate" /\ llm.stats.total_failures > 0

\* C12: when a chunk passes the threshold but the generation fails,
\* RAGEngine.query falls back to a refusal: success is false, not true with an
\* apology text
C12_GenerationFailureRefuses ==
    (RagQueryDone /\ raised = None /\ GenerationFailed) =>
        response.success = FALSE

-----------------------------------------------------------------------------
(* Properties of QueryRouter.route (SpecRouter) *)

RouteDone == pc = "done" /\ args.op = "route"

\* the calls routing makes to the two engines
EngineCalls ==
    {i \in DOMAIN calls : calls[i].op \in {"db_execute", "rag_query"}}

\* C5: route called with a role_validation whose allowed is false returns a
\* denial with data_source none and calls neither db_engine.execute nor
\* rag_engine.query, whatever the intent flags are
C5_DeniedRouteTouchesNoEngine ==
    (RouteDone /\ ~role_validation.allowed) =>
        /\ response.data_source = NONE
        /\ EngineCalls = {}

\* C6: the data_source of every response of route is the function of the
\* flags (db only -> database, rag only -> vector_db, both -> hybrid, neither
\* -> none), and no path, an exception inside routing included, overrides it
C6_DataSourceFromFlags ==
    RouteDone =>
        response.data_source =
            (IF intent_meta.requires_db /\ ~intent_meta.requires_rag THEN DATABASE
             ELSE IF intent_meta.requires_rag /\ ~intent_meta.requires_db
             THEN VECTOR_DB
             ELSE IF intent_meta.requires_db /\ intent_meta.requires_rag
             THEN HYBRID
             ELSE NONE)

\* C15: every response route returns has non-empty response text, for every
\* intent, role and formatting setting, also when the data engine returns
\* success false with any message and when the generation gives nothing
C15_ResponseTextNonEmpty ==
    RouteDone => response.response /= ""

\* C16: a response of route, and its to_dict form, carries raw_data only when
\* the caller passed include_raw_data true; when it is false raw_data is
\* absent on every path
C16_RawDataOnlyOnRequest ==
    RouteDone =>
        /\ ~args.include_raw_data =>
                /\ response.raw_data = NULL
                /\ "raw_data" \notin DOMAIN to_dict(response)
        /\ "raw_data" \in DOMAIN to_dict(response) => args.include_raw_data

C16_Witness ==
    /\ RouteDone
    /\ ~args.include_raw_data
    /\ response.data_source = DATABASE
    /\ response.metadata.record_count > 0
    /\ response.raw_data = NULL

\* the texts of the exceptions the store and the engines raise, and their
\* type names
InternalErrorTexts ==
    {"503 unavailable", "'NoneType' object has no attribute 'get'",
     "AttributeError", "OSError", "RuntimeError", "ValueError"}

\* the strings a response shows to the caller: its text and the metadata
\* entries that hold text
ShownStrings(r) ==
    {r.response} \cup
    {r.metadata[k] : k \in DOMAIN r.metadata \cap
        {"source", "error", "error_type", "error_message", "role", "intent",
         "classification_method"}}

\* C17: when the store fails or an exception occurs during a query, no
\* internal error text (exception message or type name) appears in the
\* response, neither in its text nor in its metadata
C17_NoInternalErrorText ==
    (pc = "done" /\ response /= NULL) =>
        ShownStrings(response) \cap InternalErrorTexts = {}

\* without an exception caught by route, data_source follows the flags
DataSourceFromFlagsUnlessCaught ==
    (RouteDone /\ "error_type" \notin DOMAIN response.metadata) =>
        response.data_source = determine_data_source(intent_meta)

-----------------------------------------------------------------------------
(* Properties of HybridAISystem.query (SpecSystem) *)

QueryDone == pc = "done" /\ args.op = "query"

\* the calls made to the data engine, the retrieval engine and the generation
\* provider
GuardedCalls ==
    {i \in DOMAIN calls :
        calls[i].op \in {"db_execute", "lookup", "rag_query",
                         "similarity_search", "generate", "groq", "gemini"}}

\* C4: in an execution of query no data engine, retrieval engine or generation
\* call happens unless role validation has returned allowed, and when
\* validation returns allowed false (role denial or scope violation) the
\* response has data_source none and metadata error "access_denied"
C4_EnginesOnlyAfterAllowed ==
    args.op = "query" =>
        /\ GuardedCalls /= {} =>
                (role_validation /= NULL /\ role_validation.allowed)
        /\ (pc = "done" /\ role_validation /= NULL /\ ~role_validation.allowed) =>
                /\ response.data_source = NONE
                /\ response.metadata.error = "access_denied"
                /\ GuardedCalls = {}

C4_Witness ==
    /\ QueryDone
    /\ role_validation /= NULL
    /\ role_validation.reason = SCOPE_VIOLATION_REASON
    /\ response.metadata.error = "access_denied"

\* an allowed execution that reached the engines
AllowedReachedEngines ==
    /\ QueryDone
    /\ role_validation /= NULL
    /\ role_validation.allowed
    /\ GuardedCalls /= {}

\* the role string of the call names no UserRole
InvalidRole == args.op = "query" /\ args.role \notin UserRole

C21_InvalidRoleReachesNoEngine ==
    InvalidRole => (role_validation = NULL /\ GuardedCalls = {})

\* the fields of a QueryResponse
QueryResponseFields ==
    {"intent", "role", "data_source", "response", "metadata", "raw_data"}

\* C22: query never propagates an exception: for every input and every
\* failure of classifier, validator, engines or generation backends the
\* execution ends with a QueryResponse returned
C22_QueryNeverRaises ==
    QueryDone =>
        /\ raised = None
        /\ response /= NULL
        /\ DOMAIN response = QueryResponseFields

\* the embedding model failed to load during classification and the caller
\* got the generic error response
C22_Witness ==
    /\ QueryDone
    /\ raised = None
    /\ intent_meta = NULL
    /\ \E i \in DOMAIN calls : calls[i].op = "load_model"
    /\ response.response = APOLOGY
    /\ response.metadata = [error |-> "system_error", error_message |-> "OSError"]


-----------------------------------------------------------------------------
(* Properties of HybridLLMProvider.generate_full (SpecLLM) *)

GenerateFullDone == pc = "done" /\ args.op = "generate_full"

GenerateDone == pc = "done" /\ args.op \in {"generate", "generate_full"}

\* the backend attempts of the call, in order
Attempts == SelectSeq(calls, LAMBDA c : c.op \in {"groq", "gemini"})

AttemptsOf(backend) == {i \in DOMAIN Attempts : Attempts[i].op = backend}

Increments ==
    {<<c, llm.stats[c] - args.before[c]>> :
        c \in {k \in DOMAIN llm.stats : llm.stats[k] /= args.before[k]}}

\* C14: with both backends configured, a call in which Groq succeeds returns
\* fallback_used false and increments only groq_success, by 1; Groq failing
\* and Gemini succeeding returns fallback_used true and increments
\* groq_failure and gemini_success by exactly 1 each; both failing returns
\* None and increments groq_failure and total_failures by exactly 1 each
C14_CountersPerCall ==
    (GenerateFullDone /\ llm.groq_client /\ llm.gemini_client) =>
        /\ (calls[1].ok) =>
              /\ response /= NULL
              /\ response.fallback_used = FALSE
              /\ Increments = {<<"groq_success", 1>>}
        /\ (~calls[1].ok /\ calls[Len(calls)].ok) =>
              /\ response /= NULL
              /\ response.fallback_used = TRUE
              /\ <<"groq_failure", 1>> \in Increments
              /\ <<"gemini_success", 1>> \in Increments
              /\ \A p \in Increments : p[2] = 1
        /\ (~calls[1].ok /\ ~calls[Len(calls)].ok) =>
              /\ response = NULL
              /\ Increments = {<<"groq_failure", 1>>, <<"total_failures", 1>>}

C14_Witness ==
    /\ GenerateFullDone
    /\ llm.groq_client /\ llm.gemini_client
    /\ response = NULL
    /\ args.before.total_failures = 1
    /\ llm.stats.total_failures = 2

-----------------------------------------------------------------------------
(* Properties of DeterministicDataEngine.execute *)

ExecuteDone == pc = "done" /\ args.op = "execute"

\* the store call of the handler execute dispatched to has raised
StoreFailed ==
    /\ \E i \in DOMAIN calls : calls[i] = Lookup("get_saved_items", args.user_id)
    /\ ~args.store.ok

\* C18: execute never propagates an exception: for every intent, role and
\* failure of the store it returns an envelope, and a failure gives an
\* envelope with success false, data absent and count 0
C18_ExecuteReturnsEnvelope ==
    ExecuteDone =>
        /\ raised = None
        /\ response /= NULL
        /\ {"success", "message"} \subseteq DOMAIN response
        /\ StoreFailed => ~response.success
        /\ ~response.success =>
              /\ response.data = NULL
              /\ response.count = 0

C18_Witness ==
    /\ ExecuteDone
    /\ StoreFailed
    /\ response.success = FALSE
    /\ response.data = NULL
    /\ response.count = 0
    /\ response.message = "503 unavailable"

-----------------------------------------------------------------------------
(* Properties of concurrent generate_full calls *)

AllTasksDone == \A t \in Tasks : pc[t] = "done"

\* the calls that took each branch of generate_full
TookGroqSuccess == {t \in Tasks : args[t].groq = "ok"}
TookGroqFailure == {t \in Tasks : args[t].groq = "failed"}
TookGeminiSuccess == {t \in Tasks : args[t].gemini = "ok"}
TookTotalFailure == {t \in Tasks : pc[t] = "done" /\ response[t] = NULL}

\* C19: when several generate calls run concurrently on the shared provider,
\* no increment is lost: after all calls have completed each counter equals
\* the number of calls that took the corresponding branch
C19_NoLostIncrement ==
    AllTasksDone =>
        /\ llm.stats.groq_success = Cardinality(TookGroqSuccess)
        /\ llm.stats.groq_failure = Cardinality(TookGroqFailure)
        /\ llm.stats.gemini_success = Cardinality(TookGeminiSuccess)
        /\ llm.stats.gemini_fallback = Cardinality(TookGeminiSuccess)
        /\ llm.stats.total_failures = Cardinality(TookTotalFailure)

\* two calls were waiting at the same time, both found Groq failing, one got
\* its answer from Gemini and the other none, and every increment is counted
C19_Witness ==
    /\ AllTasksDone
    /\ llm.groq_client /\ llm.gemini_client
    /\ \E t1, t2 \in Tasks :
          /\ t1 /= t2
          /\ t1 \in TookGroqFailure \cap TookGeminiSuccess
          /\ t2 \in TookGroqFailure \cap TookTotalFailure
    /\ llm.stats.groq_failure >= 2
    /\ llm.stats.gemini_success >= 1
    /\ llm.stats.total_failures >= 1

-----------------------------------------------------------------------------
(* Properties of the shared example table of IntentClassifier (SpecClassifier).
   classify has no await that gives way, so concurrent calls on the singleton
   run one after the other in some order, as NextClassifyCall lets them. *)

\* the table with the examples of every intent of INTENT_EXAMPLES encoded
CompleteTable == {INTENT_EXAMPLES[k] : k \in DOMAIN INTENT_EXAMPLES}

\* the call is past _lazy_load_embeddings and goes on to compare the query
\* with the entries of the table
ReadsTable == pc = "encode"

\* C20: under concurrent first use the model and the example table are
\* initialized exactly once, and no classification reads the table before it
\* is completely populated
C20_TableCompleteWhenRead ==
    ReadsTable =>
        /\ embedding_model /= None
        /\ example_embeddings = CompleteTable

\* the calls whose load went through do read a complete table
C20_CompleteAfterLoadOk ==
    (ReadsTable /\ calls /= <<>> /\ calls[Len(calls)].op = "load_model") =>
        example_embeddings = CompleteTable

-----------------------------------------------------------------------------
(* Properties of the deterministic template (SpecFormat) *)

\* the formatting ended without a generated text: formatting is disabled or
\* no backend answered, so the text is the one of _format_simple
TemplateUsed ==
    /\ pc = "done"
    /\ args.op = "format"
    /\ \A i \in DOMAIN calls :
          calls[i].op \in {"groq", "gemini"} => ~calls[i].ok

\* C23: when formatting is disabled or generation returns absent, the
\* template reports the figures of the engine's result: for REVENUE the
\* amount shown is the result's total revenue, for ANALYTICS and SAVED_ITEMS
\* the number shown is the result's count, never a default
C23_TemplateShowsEngineFigures ==
    (TemplateUsed /\ args.data.success) =>
        /\ args.intent = REVENUE =>
              response.text = "Revenue: $" \o Money(args.data.data.total_revenue)
        /\ args.intent = ANALYTICS =>
              /\ "count" \in DOMAIN args.data
              /\ response.text =
                    "Analytics: " \o ToString(args.data.count) \o " items found"
        /\ args.intent = SAVED_ITEMS =>
              /\ "count" \in DOMAIN args.data
              /\ response.text =
                    "You have " \o ToString(args.data.count) \o " saved items"

\* the part that holds: the saved items shown are the result's count
C23_SavedItemsCountShown ==
    (TemplateUsed /\ args.data.success /\ args.intent = SAVED_ITEMS) =>
        /\ "count" \in DOMAIN args.data
        /\ response.text =
              "You have " \o ToString(args.data.count) \o " saved items"

-----------------------------------------------------------------------------
(* Properties of document ingestion (SpecIngest) *)

IndexDone == pc = "done" /\ args.op \in {"index_policy_document", "index_help_document"}

\* the chunks handed to the collection
IndexedChunks == calls[1].documents

\* the characters of a text that are not whitespace, in order
RECURSIVE Letters(_)
Letters(text) ==
    IF text = <<>> THEN <<>>
    ELSE IF Head(text) \in Whitespace THEN Letters(Tail(text))
    ELSE <<Head(text)>> \o Letters(Tail(text))

RECURSIVE Concat(_)
Concat(chunks) ==
    IF chunks = <<>> THEN <<>> ELSE Head(chunks) \o Concat(Tail(chunks))

\* C24: ingestion produces bounded chunks: for every text and chunk_size each
\* chunk has length at most chunk_size and is non-empty, and the paragraphs
\* appear in the chunks in their original order with none dropped
C24_ChunksBounded ==
    IndexDone =>
        /\ \A i \in DOMAIN IndexedChunks :
              /\ Len(IndexedChunks[i]) <= args.chunk_size
              /\ IndexedChunks[i] /= <<>>
        /\ Letters(Concat(IndexedChunks)) = Letters(args.content)

\* the part that holds: the text of the paragraphs is kept, in order
C24_ParagraphsKeptInOrder ==
    IndexDone => Letters(Concat(IndexedChunks)) = Letters(args.content)

-----------------------------------------------------------------------------
(* Properties of the answers of RAGEngine.query (SpecRetrieve) *)

\* the chunks of the search that pass the similarity threshold
RetainedChunks ==
    IF args.search.ok
    THEN SelectSeq(args.search.hits, LAMBDA c : c.score >= SIMILARITY_THRESHOLD)
    ELSE <<>>

\* C25: whenever query returns success true, citations is non-empty and has
\* one entry per retained chunk with ids 1..N matching the [Source N] tags
\* of the context in the same order, N = chunk_count = length of scores, N is
\* at most max_chunks, every score is at least 0.75 and the chunks are in
\* descending score order
C25_CitationsMatchChunks ==
    (RagQueryDone /\ response /= NULL /\ response.success) =>
        /\ response.citations /= <<>>
        /\ Len(response.citations) = Len(RetainedChunks)
        /\ \A i \in DOMAIN response.citations :
              /\ response.citations[i].id = i
              /\ response.context.parts[i].marker =
                    "[Source " \o ToString(response.citations[i].id) \o "]"
              /\ response.context.parts[i].text = RetainedChunks[i].text
              /\ response.scores[i] = RetainedChunks[i].score
        /\ Len(response.context.parts) = Len(response.citations)
        /\ response.chunk_count = Len(response.citations)
        /\ Len(response.scores) = Len(response.citations)
        /\ Len(response.citations) <= args.max_chunks
        /\ \A i \in DOMAIN response.scores :
              response.scores[i] >= SIMILARITY_THRESHOLD
        /\ \A i \in 1..(Len(response.scores) - 1) :
              response.scores[i] >= response.scores[i + 1]

\* an answer from two chunks of different scores, the search having returned
\* as many chunks as max_chunks allows
C25_Witness ==
    /\ RagQueryDone
    /\ response /= NULL
    /\ response.success
    /\ args.max_chunks = 2
    /\ response.chunk_count = 2
    /\ response.scores = <<90, 75>>
    /\ response.citations[2].id = 2

-----------------------------------------------------------------------------
(* Containment of the retrieval engine by the routing table (SpecRAG) *)

\* the intents whose routing-table entry is structured-only
StructuredOnlyByTable ==
    {i \in Intent : INTENT_ROUTING[i].requires_db /\ ~INTENT_ROUTING[i].requires_rag}

\* C26: the retrieval engine never answers a question reserved for the
\* structured path: for every intent whose routing-table entry is
\* structured-only, query returns success false
C26_StructuredIntentsNeverAnswered ==
    (RagQueryDone /\ args.intent \in StructuredOnlyByTable /\ response /= NULL) =>
        response.success = FALSE

\* the structured-only intents that do get an answer are the two that the
\* containment check of query does not list
C26_RefusedByTheCheckOnly ==
    (RagQueryDone /\ args.intent \in StructuredOnlyByTable
        /\ response /= NULL /\ response.success) =>
            args.intent \in {RECOMMENDATION, MODERATION}

-----------------------------------------------------------------------------
(* Properties of the counters of HybridLLMProvider over sequences of calls
   (SpecLLM) *)

\* the sum of the counters a call ends on
TerminalSum(l) ==
    l.stats.groq_success + l.stats.gemini_success + l.stats.total_failures

\* a step that is one completed generate / generate_full call: it adds one to
\* exactly one terminal counter
CallCountsOnce ==
    pc' = "done" =>
        /\ TerminalSum(llm') = TerminalSum(llm) + 1
        /\ llm'.stats.groq_success >= llm.stats.groq_success
        /\ llm'.stats.gemini_success >= llm.stats.gemini_success
        /\ llm'.stats.total_failures >= llm.stats.total_failures

\* a step that is reset_stats: all five counters are 0 and the configured
\* backends are unchanged
ResetClears ==
    pc' = "idle" =>
        /\ \A k \in DOMAIN llm'.stats : llm'.stats[k] = 0
        /\ llm'.groq_client = llm.groq_client
        /\ llm'.gemini_client = llm.gemini_client

\* C27: the counters start at 0, every completed call increments exactly one
\* of groq_success, gemini_success, total_failures (so their sum is the
\* number of calls completed since construction or the last reset),
\* gemini_fallback always equals gemini_success, and reset_stats sets the
\* five counters to 0 without changing the configured backends
C27_TerminalCountersCountCalls ==
    /\ \A k \in DOMAIN llm.stats : llm.stats[k] = 0
    /\ [][CallCountsOnce /\ ResetClears]_vars
    /\ [](llm.stats.gemini_fallback = llm.stats.gemini_success)

\* two calls have completed since the reset, one answered by Gemini and one
\* by nobody
C27_Witness ==
    /\ GenerateDone
    /\ TerminalSum(llm) = 2
    /\ llm.stats.gemini_success = 1
    /\ llm.stats.gemini_fallback = 1
    /\ llm.stats.total_failures = 1

-----------------------------------------------------------------------------
(* Partner scope of the data engine's lookups (SpecSystem) *)

\* the partner-scoped lookups made to the data engine
PartnerLookups ==
    {i \in DOMAIN calls :
        /\ calls[i].op = "lookup"
        /\ calls[i].name \in {"get_partner_analytics", "get_partner_revenue"}}

\* C28: in every execution of query with role partner, get_partner_analytics
\* and get_partner_revenue are invoked only with a partner_id equal to the
\* caller's user_id, for any query text and any supplied partner_id
C28_PartnerLookupsOwnIdOnly ==
    (args.op = "query" /\ args.role = PARTNER) =>
        \A i \in PartnerLookups : calls[i].id = args.user_id

\* a partner who supplied its own id got its revenue looked up
C28_Witness ==
    /\ QueryDone
    /\ args.role = PARTNER
    /\ args.partner_id = args.user_id
    /\ \E i \in PartnerLookups :
          calls[i] = Lookup("get_partner_revenue", args.user_id)

\* a partner who supplied another partner's id is denied before any lookup
C28_OtherPartnerDenied ==
    (QueryDone /\ args.role = PARTNER /\ args.partner_id \in UserIds
        /\ args.partner_id /= args.user_id /\ role_validation /= NULL
        /\ role_validation.intent \in {ANALYTICS, REVENUE}) =>
            /\ ~role_validation.allowed
            /\ PartnerLookups = {}

-----------------------------------------------------------------------------
(* The routing flags of classifications and the hybrid branch (SpecSystem) *)

\* the execution went into _route_hybrid: both engines were called
TookHybridBranch ==
    /\ \E i \in DOMAIN calls : calls[i].op = "db_execute"
    /\ \E i \in DOMAIN calls : calls[i].op = "rag_query"

-----------------------------------------------------------------------------
(* The role reported by the responses of HybridAISystem.query (SpecSystem) *)

\* C30: every response of query for a valid role reports, in its role /
\* role_scope field, exactly the role the caller supplied, on every path
C30_ResponseReportsCallerRole ==
    (QueryDone /\ args.role \in UserRole) =>
        /\ response.role = args.role
        /\ to_dict(response).role_scope = args.role

\* the responses built from the validation result or by an engine route do
\* report the caller's role
C30_RoleKeptOffDefaultPaths ==
    (QueryDone /\ args.role \in UserRole /\ role_validation /= NULL
        /\ response.intent /= UNKNOWN) =>
            response.role = args.role

====
